---- MODULE Spec2Model ----
(***************************************************************************)
(* Model of the go-parser Scanner (parser/parser.go): the Read worker     *)
(* goroutine with its data and error channels, the Scanner lifecycle      *)
(* (OpenFileScanner, OpenIoReaderScanner, Read, Shutdown), and the line   *)
(* transformers Filter and Replace.                                       *)
(*                                                                         *)
(* Input lines are numbered 1..nLines.  bufio.Scanner is modelled by what *)
(* its Scan/Err methods do for the default ScanLines split function: it   *)
(* tokenises what is buffered, reads more when no token is buffered,      *)
(* keeps the first non-EOF error (sticky), hands out what is buffered,    *)
(* the unterminated beginning of a line included, after a read error, and *)
(* stops for good at EOF, when nothing is left after a read error, or at  *)
(* a line longer than the token limit.                                    *)
(***************************************************************************)
EXTENDS Integers, Sequences, FiniteSets, TLC

\* ---- bounds of the model ----
MaxLines == 3
MaxBuffer == 1
MaxChunk == 3
MaxShutdownCalls == 2
MaxRowLen == 3
MaxRules == 2
MaxExpected == 4
MaxFields == 2
MaxFieldLen == 2
MaxExtracts == 2
MaxHashFields == 2
MaxCalls == 2
MaxThreads == 2
MaxFiles == 2
MaxShared == 1
MaxOutRows == 2
MaxLoops == 2
MaxDateRowLen == 2
MaxPipeLines == 2

VARIABLES
  mode,                    \* which part of the program is exercised
  nLines,                  \* number of lines of the input
  longAt,                  \* index of a line longer than the token limit, 0 = none
  processedInputDirectory, \* TRUE when a processed directory is configured
  consumerMode,            \* "any": receives in any order; "dataFirst": data until closed, then errors
  file,                    \* scnr.file: "nil", "open", "closed"
  scanner,                 \* scnr.scanner: "nil", "file", "reader"
  rpos,                    \* lines the underlying reader has handed to the bufio buffer
  rpart,                   \* the buffer also holds the beginning of line rpos + 1, without its end
  spos,                    \* lines bufio.Scanner has tokenised
  serr,                    \* bufio.Scanner's sticky error: "nil", "EOF", "ErrTooLong", "ReadErr"
  pc,                      \* position of the Read worker goroutine
  panicking,               \* the worker is unwinding after a nil dereference
  defers,                  \* the worker's stack of deferred closes
  row,                     \* the token held by the worker
  dataCap, errCap,         \* channel capacities given to Read
  dataChan, errorChan,     \* buffered contents of the channels
  dataCloses, errorCloses, \* number of close() calls on each channel
  received, errsReceived,  \* what the consumer has received
  dataClosedSeen, errorClosedSeen,
  fsOrig, fsProc,          \* file content at the original path / in the processed directory
  shutdownCalls,           \* Shutdown calls made by the caller
  hist,                    \* history record of observations used by the properties
  fRow, fNeg, fPos, fOut,  \* Filter: line, filters, result
  rRow, rRules, rOut,      \* Replace: line, rules, result
  sRow, sDelim, sExpected, sOut,  \* Split: line, delimiter, expected field count, result
  eRow, eRules, eOut,  \* Extract: row of fields, rules, result
  HashColumns, HashMap, HashCounts, hSplits, hFormat, hOut, hLog,  \* SplitsExcludeHashColumns: configuration, maps, last call, calls made
  nInputs, nOut,  \* NewScanner: inputs, result
  gThreads, gFiles, gNRepl, gNExtr, gMain, gNext, gTasks, gClosed, gPc, gIdx, gFile, gArg, gFlagsPath, gRegex, gParsed,  \* parseFileEngine: configuration, main goroutine, tasks channel, workers, shared memory
  gWatch, gRows, gDir, gDirAtStart, gMoved, gLoops, gExit,  \* main: watch mode, rows per file, data directory, engine calls, exit code
  gLocked, gFinal, gInode, gFd, gWritten, gFlushed,  \* output files by name, their content, each worker's writer
  gReader,  \* the Read goroutine of each worker's Scanner: "none", "reading", "done"
  pLines, pCfg, pDone, pOut, pPanic  \* processScanner: lines on the data channel, configuration, lines received, rows written, panic

streamVars == <<nLines, longAt, processedInputDirectory, consumerMode, file, scanner,
                rpos, rpart, spos, serr, pc, panicking, defers, row, dataCap, errCap, dataChan,
                errorChan, dataCloses, errorCloses, received, errsReceived, dataClosedSeen,
                errorClosedSeen, fsOrig, fsProc, shutdownCalls, hist>>
filterVars == <<fRow, fNeg, fPos, fOut>>
replaceVars == <<rRow, rRules, rOut>>
splitVars == <<sRow, sDelim, sExpected, sOut>>
extractVars == <<eRow, eRules, eOut>>
hashVars == <<HashColumns, HashMap, HashCounts, hSplits, hFormat, hOut, hLog>>
newVars == <<nInputs, nOut>>
engineVars == <<gThreads, gFiles, gNRepl, gNExtr, gMain, gNext, gTasks, gClosed, gPc, gIdx, gFile, gArg, gFlagsPath, gRegex, gParsed,
                gWatch, gRows, gDir, gDirAtStart, gMoved, gLoops, gExit,
                gLocked, gFinal, gInode, gFd, gWritten, gFlushed, gReader>>
pipeVars == <<pLines, pCfg, pDone, pOut, pPanic>>
pureVars == <<filterVars, replaceVars, splitVars, extractVars, hashVars, newVars, engineVars, pipeVars>>
vars == <<mode, streamVars, pureVars>>

Min(a, b) == IF a < b THEN a ELSE b

\* The byte content of the input file: its lines (and which one is over-long).
Content == <<nLines, longAt>>

(***************************************************************************)
(* Scanner.Shutdown: closes the file handle when there is one.             *)
(***************************************************************************)
ShutdownFile_forgetClose(f) == f

ShutdownFile(f) == IF f # "nil" THEN "closed" ELSE f

(***************************************************************************)
(* History record.                                                         *)
(***************************************************************************)
HistInit ==
  [ lastOp |-> "init",          \* name of the last action
    sendOnClosed |-> FALSE,     \* a send was attempted on a closed channel
    ioFault |-> FALSE,          \* the underlying reader returned an I/O error
    callerClosedFile |-> FALSE, \* the caller closed the open file before the scan loop ended
    closedInScan |-> FALSE,     \* the caller closed the open file while the worker's Scan() was reading
    errsSent |-> <<>>,          \* errors the worker sent, in order
    dataSent |-> <<>>,          \* lines the worker sent, in order
    dropped |-> {},             \* tokens the worker discarded
    rename |-> "none",          \* "none", "ok", "failed"
    dataOpenAtRename |-> FALSE, \* the data channel was still open when os.Rename ran
    bufferedAtRename |-> 0,     \* lines in the data channel buffer when os.Rename ran
    fileBeforeShutdown |-> "nil" ]

StreamInit ==
  /\ nLines \in 0..MaxLines
  /\ longAt \in 0..nLines
  /\ processedInputDirectory \in BOOLEAN
  /\ consumerMode \in {"any", "dataFirst"}
  /\ file = "nil"
  /\ scanner = "nil"
  /\ rpos = 0
  /\ rpart = FALSE
  /\ spos = 0
  /\ serr = "nil"
  /\ pc = "idle"
  /\ panicking = FALSE
  /\ defers = <<>>
  /\ row = 0
  /\ dataCap = 0
  /\ errCap = 0
  /\ dataChan = <<>>
  /\ errorChan = <<>>
  /\ dataCloses = 0
  /\ errorCloses = 0
  /\ received = <<>>
  /\ errsReceived = <<>>
  /\ dataClosedSeen = FALSE
  /\ errorClosedSeen = FALSE
  /\ fsOrig = Content
  /\ fsProc = "none"
  /\ shutdownCalls = 0
  /\ hist = HistInit

\* The streaming part at rest, for the specifications of the pure transformers.
StreamIdle ==
  /\ nLines = 0
  /\ longAt = 0
  /\ processedInputDirectory = FALSE
  /\ consumerMode = "any"
  /\ file = "nil"
  /\ scanner = "nil"
  /\ rpos = 0
  /\ rpart = FALSE
  /\ spos = 0
  /\ serr = "nil"
  /\ pc = "idle"
  /\ panicking = FALSE
  /\ defers = <<>>
  /\ row = 0
  /\ dataCap = 0
  /\ errCap = 0
  /\ dataChan = <<>>
  /\ errorChan = <<>>
  /\ dataCloses = 0
  /\ errorCloses = 0
  /\ received = <<>>
  /\ errsReceived = <<>>
  /\ dataClosedSeen = FALSE
  /\ errorClosedSeen = FALSE
  /\ fsOrig = "none"
  /\ fsProc = "none"
  /\ shutdownCalls = 0
  /\ hist = HistInit

(***************************************************************************)
(* Lines of text and regular expressions.  A line is a sequence of        *)
(* characters.  A regular expression is the empty string (which the       *)
(* configuration uses for "not configured"), a parenthesised literal such *)
(* as "(class poor delimiting)", whose group 1 is the whole match, or a   *)
(* repetition c{n,} of one character such as "\s\s+".                     *)
(***************************************************************************)
Chars == {"a", "b"}
Rows == UNION {[1..n -> Chars] : n \in 0..MaxRowLen}

EmptyString == [kind |-> "empty"]
Nil == [kind |-> "nil"]
Lit(str) == [kind |-> "lit", str |-> str]
Rep(c, n) == [kind |-> "rep", c |-> c, min |-> n]
Regexes == {Lit(<<"a">>), Lit(<<"b">>), Lit(<<"a", "b">>), Rep("b", 2)}

(***************************************************************************)
(* Date-time strings.  A substring DATE_TIME_REGEX matches, four digits,   *)
(* two, two, a space or a hyphen, and three times two digits, is one       *)
(* element of a line: the text itself, as a string.  The digits are any    *)
(* digits (\d), so a match need not name a month, day or hour that exists. *)
(***************************************************************************)
DATE_TIME_REGEX == [kind |-> "datetime"]

\* s padded with zeros on the left to width w.
RECURSIVE Pad(_, _)
Pad(str, w) == IF Len(str) >= w THEN str ELSE Pad("0" \o str, w)

DateTimes ==
  [ year : {1970, 2024}, month : {2, 13}, day : {1, 29, 30}, sep : {" ", "-"},
    hour : {0, 23}, minute : {0}, second : {59} ]

\* The text of a date-time: "2024-02-29 23:00:59".
DateTimeText(dt) ==
  Pad(ToString(dt.year), 4) \o "-" \o Pad(ToString(dt.month), 2) \o "-" \o Pad(ToString(dt.day), 2)
    \o dt.sep \o Pad(ToString(dt.hour), 2) \o ":" \o Pad(ToString(dt.minute), 2)
    \o ":" \o Pad(ToString(dt.second), 2)

DateTimeTexts == {DateTimeText(dt) : dt \in DateTimes}
\* The fields a text is made of.
DateTimeOf(text) == CHOOSE dt \in DateTimes : DateTimeText(dt) = text

\* Days of a month of the Gregorian calendar.
DaysIn(month, year) ==
  IF month = 2
  THEN (IF year % 4 = 0 /\ (year % 100 # 0 \/ year % 400 = 0) THEN 29 ELSE 28)
  ELSE IF month \in {4, 6, 9, 11} THEN 30 ELSE 31

\* The zero time.Time: January 1, year 1, 00:00:00 UTC.
ZeroTime == [year |-> 1, month |-> 1, day |-> 1, hour |-> 0, minute |-> 0, second |-> 0]

\* time.Parse(time.DateTime, text), the layout being "2006-01-02 15:04:05": the
\* separator must be the space of the layout and every field in range; else it
\* returns the zero time and an error.
TimeParse(text) ==
  LET dt == DateTimeOf(text)
  IN  IF /\ dt.sep = " "
         /\ dt.month \in 1..12
         /\ dt.day \in 1..DaysIn(dt.month, dt.year)
         /\ dt.hour \in 0..23 /\ dt.minute \in 0..59 /\ dt.second \in 0..59
      THEN [t |-> [year |-> dt.year, month |-> dt.month, day |-> dt.day,
                   hour |-> dt.hour, minute |-> dt.minute, second |-> dt.second],
            err |-> "nil"]
      ELSE [t |-> ZeroTime, err |-> "ParseError"]

\* Days from 1970-01-01 to the date (proleptic Gregorian calendar).
DaysFromCivil(year, month, day) ==
  LET y == IF month <= 2 THEN year - 1 ELSE year
      era == y \div 400
      yoe == y - era * 400
      doy == (153 * (IF month > 2 THEN month - 3 ELSE month + 9) + 2) \div 5 + day - 1
      doe == yoe * 365 + yoe \div 4 - yoe \div 100 + doy
  IN  era * 146097 + doe - 719468

\* t.Unix(): seconds since 1970-01-01 00:00:00 UTC, as whole days and the seconds
\* of the day (days * 86400 + secs; the product is beyond the integers TLC has).
Unix(t) ==
  [days |-> DaysFromCivil(t.year, t.month, t.day),
   secs |-> t.hour * 3600 + t.minute * 60 + t.second]

\* fmt.Sprint of the number days * 86400 + secs, in decimal: the magnitude is
\* computed as hi * 10^5 + lo from days * 864 = a * 1000 + b.
Sprint(u) ==
  LET n == IF u.days < 0 THEN 0 - u.days ELSE u.days
      a == (n * 864) \div 1000
      b == (n * 864) % 1000
      low == IF u.days < 0 THEN b * 100 - u.secs ELSE b * 100 + u.secs
      hi == IF low < 0 THEN a - 1 ELSE IF low >= 100000 THEN a + 1 ELSE a
      lo == IF low < 0 THEN low + 100000 ELSE IF low >= 100000 THEN low - 100000 ELSE low
  IN  (IF u.days < 0 THEN "-" ELSE "")
        \o (IF hi > 0 THEN ToString(hi) \o Pad(ToString(lo), 5) ELSE ToString(lo))

\* dateTimeToUnixEpoch: t, _ := time.Parse(...); fmt.Sprint(t.Unix()).
dateTimeToUnixEpoch(input) == Sprint(Unix(TimeParse(input).t))

\* Length of the run of character c in str that starts at position i.
RECURSIVE RunLen(_, _, _)
RunLen(str, c, i) ==
  IF i > Len(str) \/ str[i] # c THEN 0 ELSE 1 + RunLen(str, c, i + 1)

\* Length of the match of re that starts at position i of str, 0 when there is none
\* (a repetition is greedy).
MatchLenAt(re, str, i) ==
  IF re.kind = "lit"
  THEN IF i + Len(re.str) - 1 <= Len(str) /\ SubSeq(str, i, i + Len(re.str) - 1) = re.str
       THEN Len(re.str) ELSE 0
  ELSE IF re.kind = "datetime"
  THEN IF i <= Len(str) /\ str[i] \in DateTimeTexts THEN 1 ELSE 0
  ELSE IF RunLen(str, re.c, i) >= re.min THEN RunLen(str, re.c, i) ELSE 0

\* regexp.MatchString: the expression matches somewhere in the line.
MatchString(re, str) == \E i \in 1..Len(str) : MatchLenAt(re, str, i) > 0

\* Expansion of a replacement template for one match: "$1" stands for ${1}, the
\* text of group 1 (empty when the expression has no group).
RECURSIVE Expand(_, _, _)
Expand(template, re, match) ==
  IF template = <<>> THEN <<>>
  ELSE (IF Head(template) = "$1"
        THEN (IF re.kind = "lit" THEN match ELSE <<>>)
        ELSE <<Head(template)>>) \o Expand(Tail(template), re, match)

\* regexp.ReplaceAllString: every leftmost non-overlapping match, from position i
\* on, is replaced by the expanded template.
RECURSIVE ReplaceAllFrom(_, _, _, _)
ReplaceAllFrom(re, str, template, i) ==
  IF i > Len(str) THEN <<>>
  ELSE IF MatchLenAt(re, str, i) > 0
       THEN Expand(template, re, SubSeq(str, i, i + MatchLenAt(re, str, i) - 1))
              \o ReplaceAllFrom(re, str, template, i + MatchLenAt(re, str, i))
       ELSE <<str[i]>> \o ReplaceAllFrom(re, str, template, i + 1)

ReplaceAllString(re, str, template) == ReplaceAllFrom(re, str, template, 1)

(***************************************************************************)
(* Scanner.setFilter and Scanner.Filter.                                   *)
(***************************************************************************)
\* setFilter leaves the filter nil for the empty string, else stores the regexp.
setFilter(regex) == IF regex = EmptyString THEN Nil ELSE regex

Filter_positiveKeepsFirst(r, negativeFilter, positiveFilter) ==
  IF positiveFilter # Nil /\ MatchString(positiveFilter, r) THEN FALSE
  ELSE IF negativeFilter # Nil /\ MatchString(negativeFilter, r) THEN TRUE
  ELSE positiveFilter # Nil

\* TRUE means the row is dropped.
Filter(r, negativeFilter, positiveFilter) ==
  IF negativeFilter # Nil /\ MatchString(negativeFilter, r) THEN TRUE
  ELSE IF positiveFilter # Nil /\ ~MatchString(positiveFilter, r) THEN TRUE
  ELSE FALSE

(***************************************************************************)
(* Scanner.Replace: the rules are applied one after the other, each to    *)
(* the row the previous one produced.                                      *)
(***************************************************************************)
Templates == {<<>>, <<"a">>, <<"b", "b">>, <<"b", "b", "$1", "b", "b">>}
Rules == [RegexString : Regexes, Replacement : Templates]
RuleLists == UNION {[1..n -> Rules] : n \in 0..MaxRules}

\* regexp.ReplaceAllFunc with dateTimeToUnixEpoch: every match (one element of the
\* line) is replaced by what the function returns for it.
ReplaceAllFunc(re, str) ==
  [i \in 1..Len(str) |-> IF MatchLenAt(re, str, i) > 0 THEN dateTimeToUnixEpoch(str[i]) ELSE str[i]]

\* A rule whose RegexString is DATE_TIME_REGEX is applied with ReplaceAllFunc,
\* every other rule with ReplaceAllString.
RECURSIVE ReplaceFrom(_, _, _)
ReplaceFrom(replace, r, i) ==
  IF i > Len(replace) THEN r
  ELSE ReplaceFrom(replace,
                   IF replace[i].RegexString = DATE_TIME_REGEX
                   THEN ReplaceAllFunc(replace[i].RegexString, r)
                   ELSE ReplaceAllString(replace[i].RegexString, r, replace[i].Replacement),
                   i + 1)

RECURSIVE Replace_lastRuleFirst(_, _)
Replace_lastRuleFirst(replace, r) ==
  IF replace = <<>> THEN r
  ELSE Replace_lastRuleFirst(SubSeq(replace, 1, Len(replace) - 1),
          ReplaceAllString(replace[Len(replace)].RegexString, r,
                           replace[Len(replace)].Replacement))

Replace(replace, r) == ReplaceFrom(replace, r, 1)

(***************************************************************************)
(* Scanner.Split: regexp.Split(row, -1) on the input delimiter, and the   *)
(* comparison of the number of fields with expectedFieldCount.            *)
(***************************************************************************)
\* regexp.Split with n = -1: the text between the leftmost non-overlapping matches,
\* the text before the first and after the last match included (a field may be
\* empty); i is the scan position, beg the start of the current field.
RECURSIVE SplitFrom(_, _, _, _)
SplitFrom(re, str, i, beg) ==
  IF i > Len(str) THEN <<SubSeq(str, beg, Len(str))>>
  ELSE IF MatchLenAt(re, str, i) > 0
       THEN <<SubSeq(str, beg, i - 1)>>
              \o SplitFrom(re, str, i + MatchLenAt(re, str, i), i + MatchLenAt(re, str, i))
       ELSE SplitFrom(re, str, i + 1, beg)

\* The empty expression matches the empty text at every position of the line: the
\* match at the start adds no field (it ends at 0), every later one ends the field
\* of one character before it, and the last one ends at the end of the line, so
\* no field follows it.  The fields are the characters of the line, and the empty
\* line has no field at all (the result [""] for an empty line is returned for a
\* non-empty expression only).
RegexpSplit(re, str) ==
  IF re = EmptyString THEN [k \in 1..Len(str) |-> <<str[k]>>]
  ELSE SplitFrom(re, str, 1, 1)

\* The input delimiters: any expression regexp.Compile accepts, the empty one
\* included.
Delimiters == Regexes \cup {EmptyString}

\* strings.Join of the fields with a separator character.
RECURSIVE Join(_, _)
Join(fields, sep) ==
  IF fields = <<>> THEN <<>>
  ELSE IF Len(fields) = 1 THEN fields[1]
  ELSE fields[1] \o <<sep>> \o Join(Tail(fields), sep)

Split_dropFieldsOnError(inputDelimiter, expectedFieldCount, r) ==
  IF Len(RegexpSplit(inputDelimiter, r)) # expectedFieldCount
  THEN [fields |-> <<>>, err |-> "FieldCountMismatch"]
  ELSE [fields |-> RegexpSplit(inputDelimiter, r), err |-> "nil"]

Split_zeroUnchecked(inputDelimiter, expectedFieldCount, r) ==
  IF expectedFieldCount # 0 /\ Len(RegexpSplit(inputDelimiter, r)) # expectedFieldCount
  THEN [fields |-> RegexpSplit(inputDelimiter, r), err |-> "FieldCountMismatch"]
  ELSE [fields |-> RegexpSplit(inputDelimiter, r), err |-> "nil"]

\* The fields are returned in both cases, with an error when their number is not
\* expectedFieldCount.
Split(inputDelimiter, expectedFieldCount, r) ==
  IF Len(RegexpSplit(inputDelimiter, r)) # expectedFieldCount
  THEN [fields |-> RegexpSplit(inputDelimiter, r), err |-> "FieldCountMismatch"]
  ELSE [fields |-> RegexpSplit(inputDelimiter, r), err |-> "nil"]

(***************************************************************************)
(* Scanner.Extract.  A row is a sequence of fields; the code's column     *)
(* indices count from 0, so column c is row[c + 1].                        *)
(***************************************************************************)
\* The submatches of one match: the full match, then group 1 when the expression
\* has a group (a parenthesised literal has one, a repetition has none).
Submatches(re, match) == IF re.kind = "lit" THEN <<match, match>> ELSE <<match>>

\* regexp.FindAllStringSubmatch(str, -1): the submatches of every leftmost
\* non-overlapping match, from position i on.
RECURSIVE FindAllFrom(_, _, _)
FindAllFrom(re, str, i) ==
  IF i > Len(str) THEN <<>>
  ELSE IF MatchLenAt(re, str, i) > 0
       THEN <<Submatches(re, SubSeq(str, i, i + MatchLenAt(re, str, i) - 1))>>
              \o FindAllFrom(re, str, i + MatchLenAt(re, str, i))
       ELSE FindAllFrom(re, str, i + 1)

FindAllStringSubmatch(re, str) == FindAllFrom(re, str, 1)

\* The loop over the matches of one rule in one field, from match k on.  acc holds
\* the row, the extracted values and the errors; acc.log notes for every append
\* the rule index, the position in Columns and the match that caused it.
RECURSIVE ExtractMatches_breakOnError(_, _, _, _, _, _)
ExtractMatches_breakOnError(extrct, sbms, k, acc, ri, ec) ==
  IF k > Len(sbms) THEN acc
  ELSE IF extrct.Submatch >= Len(sbms[k])
       THEN [acc EXCEPT !.errors = Append(@, "SubmatchIndex"),
                        !.log = Append(@, [rule |-> ri, ec |-> ec, match |-> k, out |-> "error"])]
       ELSE ExtractMatches_breakOnError(extrct, sbms, k + 1,
              [acc EXCEPT !.extracts = Append(@, sbms[k][extrct.Submatch + 1]),
                          !.log = Append(@, [rule |-> ri, ec |-> ec, match |-> k, out |-> "value"])],
              ri, ec)

RECURSIVE ExtractMatches(_, _, _, _, _, _)
ExtractMatches(extrct, sbms, k, acc, ri, ec) ==
  IF k > Len(sbms) THEN acc
  ELSE IF extrct.Submatch >= Len(sbms[k])
       THEN ExtractMatches(extrct, sbms, k + 1,
              [acc EXCEPT !.errors = Append(@, "SubmatchIndex"),
                          !.log = Append(@, [rule |-> ri, ec |-> ec, match |-> k, out |-> "error"])],
              ri, ec)
       ELSE ExtractMatches(extrct, sbms, k + 1,
              [acc EXCEPT !.extracts = Append(@, sbms[k][extrct.Submatch + 1]),
                          !.log = Append(@, [rule |-> ri, ec |-> ec, match |-> k, out |-> "value"])],
              ri, ec)

ExtractColumn_keepField(extrct, ec, acc, ri) ==
  IF extrct.Columns[ec] >= Len(acc.row) THEN acc
  ELSE ExtractMatches(extrct,
                      FindAllStringSubmatch(extrct.RegexString, acc.row[extrct.Columns[ec] + 1]),
                      1, acc, ri, ec)

\* One targeted column: skipped when the row has no such column; else the matches
\* are extracted and then every match in the field is replaced by the token.
ExtractColumn(extrct, ec, acc, ri) ==
  IF extrct.Columns[ec] >= Len(acc.row) THEN acc
  ELSE [ExtractMatches(extrct,
                       FindAllStringSubmatch(extrct.RegexString, acc.row[extrct.Columns[ec] + 1]),
                       1, acc, ri, ec)
          EXCEPT !.row[extrct.Columns[ec] + 1] =
                    ReplaceAllString(extrct.RegexString, @, extrct.Token)]

\* The loop over the rule's Columns, from position ec on.
RECURSIVE ExtractColumns(_, _, _, _)
ExtractColumns(extrct, ec, acc, ri) ==
  IF ec > Len(extrct.Columns) THEN acc
  ELSE ExtractColumns(extrct, ec + 1, ExtractColumn(extrct, ec, acc, ri), ri)

\* The loop over the rules, from rule ri on; a rule with an empty RegexString is
\* skipped.
RECURSIVE ExtractRules(_, _, _)
ExtractRules(extract, ri, acc) ==
  IF ri > Len(extract) THEN acc
  ELSE IF extract[ri].RegexString = EmptyString
       THEN ExtractRules(extract, ri + 1, acc)
       ELSE ExtractRules(extract, ri + 1, ExtractColumns(extract[ri], 1, acc, ri))

\* Fields, rows of fields and extraction rules of the bounded model.
FieldTexts == UNION {[1..n -> Chars] : n \in 0..MaxFieldLen}
FieldRows == UNION {[1..n -> FieldTexts] : n \in 0..MaxFields}
ExtractRule(cols, re, sub, tok) ==
  [Columns |-> cols, RegexString |-> re, Submatch |-> sub, Token |-> tok]
ExtractRuleSet ==
  { ExtractRule(<<0>>, Lit(<<"a">>), 1, <<"b">>),
    ExtractRule(<<1, 0>>, Lit(<<"b">>), 1, <<>>),
    ExtractRule(<<1, 0>>, Lit(<<"a">>), 2, <<>>),
    ExtractRule(<<0, 2>>, Rep("b", 2), 0, <<"a">>),
    ExtractRule(<<0, 0>>, Lit(<<"a">>), 1, <<"a", "a">>),
    ExtractRule(<<0>>, EmptyString, 0, <<>>) }
ExtractLists == UNION {[1..n -> ExtractRuleSet] : n \in 0..MaxExtracts}

Extract_lastRuleFirst(extract, r) ==
  ExtractRules([i \in 1..Len(extract) |-> extract[Len(extract) + 1 - i]], 1,
               [row |-> r, extracts |-> <<>>, errors |-> <<>>, log |-> <<>>])

Extract(extract, r) ==
  ExtractRules(extract, 1, [row |-> r, extracts |-> <<>>, errors |-> <<>>, log |-> <<>>])

(***************************************************************************)
(* Hash and Scanner.SplitsExcludeHashColumns.                              *)
(***************************************************************************)
HASH_FORMAT_STRING == 0
HASH_FORMAT_SQL == 1
\* HashFormat is an int type: a caller can pass a value that is neither constant.
HashFormats == {HASH_FORMAT_STRING, HASH_FORMAT_SQL, 2}

\* The output delimiter of the configuration, a character foreign to the fields.
OutputDelimiter == "|"

\* The MD5 digest: a deterministic function of the bytes written to it, which
\* gives the hash strings of a run digests that differ whenever the strings
\* differ.  It is the number the string is the numeral of, the characters (the
\* two of the fields and the output delimiter) being the digits 1, 2 and 3.
Code(ch) == IF ch = "a" THEN 1 ELSE IF ch = "b" THEN 2 ELSE 3
RECURSIVE Digest(_)
Digest(str) ==
  IF str = <<>> THEN 0
  ELSE Digest(SubSeq(str, 1, Len(str) - 1)) * 4 + Code(str[Len(str)])

\* Hash: the digest wrapped as '0x..' or x'..'; the switch has no default, so any
\* other format gives the empty string (and no error).
Hash(input, format) ==
  IF format = HASH_FORMAT_STRING THEN <<"'0x", ToString(Digest(input)), "'">>
  ELSE IF format = HASH_FORMAT_SQL THEN <<"x'", ToString(Digest(input)), "'">>
  ELSE <<>>

\* sort.IntSlice(x) converts []int to the type sort.IntSlice; the elements keep
\* their order (only its Sort method would sort them, and it is not called).
IntSlice(x) == x

\* map[key] = val.
MapPut(map, key, val) ==
  [k \in (DOMAIN map) \cup {key} |-> IF k = key THEN val ELSE map[k]]
\* map[key] read from a map of counts: 0 when the key is absent.
MapGet(map, key) == IF key \in DOMAIN map THEN map[key] ELSE 0

\* map[key] += 1.
MapIncrement(map, key) == MapPut(map, key, MapGet(map, key) + 1)

HashSplits_allColumns(sortedHashColumns, splits) == splits

\* The values of the hash columns, in the order of the column list.
HashSplits(sortedHashColumns, splits) ==
  [k \in 1..Len(sortedHashColumns) |-> splits[sortedHashColumns[k] + 1]]

\* The loop over the indices of splits, from field i on (i - 1 is the code's
\* index): a field whose index is the head of shc is left out, the hash is put in
\* place of the first such field, and shc loses its head.
RECURSIVE ExcludeFrom(_, _, _, _, _)
ExcludeFrom(splits, i, shc, hashInserted, hash) ==
  IF i > Len(splits) THEN <<>>
  ELSE IF Len(shc) > 0 /\ i - 1 = shc[1]
       THEN (IF ~hashInserted THEN <<hash>> ELSE <<>>)
              \o ExcludeFrom(splits, i + 1, Tail(shc), TRUE, hash)
       ELSE <<splits[i]>> \o ExcludeFrom(splits, i + 1, shc, hashInserted, hash)

\* splits[v] panics (index out of range) when a hash column is negative or beyond
\* the row; nothing has been written to the maps then.
HashPanics(hashColumns, splits) ==
  \E k \in 1..Len(hashColumns) : hashColumns[k] < 0 \/ hashColumns[k] >= Len(splits)

\* make([]string, 0, len(splits)-len(sortedHashColumns)+1) panics (cap out of
\* range) when the capacity is negative: a list that names columns more than once
\* and is longer than the row by two or more.  HashMap and HashCounts have been
\* written by then.
MakePanics(hashColumns, splits) == Len(splits) - Len(hashColumns) + 1 < 0

\* Rows and hash column lists of the bounded model.
HashTexts == {<<"a">>, <<"b">>}
HashRows == UNION {[1..n -> HashTexts] : n \in 0..MaxHashFields}
HashColumnLists == {<<0>>, <<1>>, <<0, 1>>, <<1, 0>>, <<2, 0>>, <<-1>>, <<0, 0, 0>>}

(***************************************************************************)
(* NewScanner.                                                             *)
(***************************************************************************)
\* A pattern regexp.Compile rejects, such as "(".
Invalid == [kind |-> "invalid"]
\* regexp.Compile succeeds (the empty pattern compiles).
Compiles(pattern) == pattern # Invalid
\* The error setFilter returns: nil for the empty string, else that of Compile.
setFilterError(regex) == IF regex = EmptyString \/ Compiles(regex) THEN "nil" ELSE "CompileError"

\* Index of the first pattern of the list that does not compile, 0 when all do.
RECURSIVE FirstInvalid(_, _)
FirstInvalid(rules, index) ==
  IF index > Len(rules) THEN 0
  ELSE IF ~Compiles(rules[index].RegexString) THEN index
  ELSE FirstInvalid(rules, index + 1)

\* The Scanner NewScanner builds when every check passes.
BuiltScanner(inputs) ==
  [ kind |-> "scanner",
    inputDelimiter |-> inputs.InputDelimiter,
    expectedFieldCount |-> inputs.ExpectedFieldCount,
    negativeFilter |-> setFilter(inputs.NegativeFilter),
    positiveFilter |-> setFilter(inputs.PositiveFilter),
    replace |-> inputs.Replacements,
    extract |-> inputs.Extracts,
    processedInputDirectory |-> inputs.ProcessedInputDirectory ]

NewScanner_extractsUnchecked(inputs) ==
  IF ~Compiles(inputs.InputDelimiter) THEN [scnr |-> Nil, err |-> "CompileError"]
  ELSE IF setFilterError(inputs.NegativeFilter) # "nil" THEN [scnr |-> Nil, err |-> "CompileError"]
  ELSE IF setFilterError(inputs.PositiveFilter) # "nil" THEN [scnr |-> Nil, err |-> "CompileError"]
  ELSE IF FirstInvalid(inputs.Replacements, 1) # 0 THEN [scnr |-> Nil, err |-> "CompileError"]
  ELSE IF inputs.ProcessedInputDirectory = "missing"
       THEN [scnr |-> Nil, err |-> "processedInputDirectory does not exist"]
  ELSE [scnr |-> BuiltScanner(inputs), err |-> "nil"]

\* The checks in the order of the code; the first that fails returns nil and the
\* error.  ProcessedInputDirectory is "" (not configured), "exists" or "missing"
\* (os.Stat reports that the path does not exist).
NewScanner(inputs) ==
  IF ~Compiles(inputs.InputDelimiter) THEN [scnr |-> Nil, err |-> "CompileError"]
  ELSE IF setFilterError(inputs.NegativeFilter) # "nil" THEN [scnr |-> Nil, err |-> "CompileError"]
  ELSE IF setFilterError(inputs.PositiveFilter) # "nil" THEN [scnr |-> Nil, err |-> "CompileError"]
  ELSE IF FirstInvalid(inputs.Replacements, 1) # 0 THEN [scnr |-> Nil, err |-> "CompileError"]
  ELSE IF FirstInvalid(inputs.Extracts, 1) # 0 THEN [scnr |-> Nil, err |-> "CompileError"]
  ELSE IF inputs.ProcessedInputDirectory # "" /\ inputs.ProcessedInputDirectory = "missing"
       THEN [scnr |-> Nil, err |-> "processedInputDirectory does not exist"]
  ELSE [scnr |-> BuiltScanner(inputs), err |-> "nil"]

\* Configurations of the bounded model.
Patterns == {Lit(<<"a">>), Invalid}
InputRules == [RegexString : Patterns]
InputRuleLists == UNION {[1..n -> InputRules] : n \in 0..MaxRules}
InputExtracts == [RegexString : Patterns \cup {EmptyString}]
InputExtractLists == UNION {[1..n -> InputExtracts] : n \in 0..MaxExtracts}
InputsSet ==
  [ InputDelimiter : Patterns,
    ExpectedFieldCount : {0},
    NegativeFilter : Patterns \cup {EmptyString},
    PositiveFilter : Patterns \cup {EmptyString},
    Replacements : InputRuleLists,
    Extracts : InputExtractLists,
    ProcessedInputDirectory : {"", "exists", "missing"} ]

FilterIdle == fRow = <<>> /\ fNeg = EmptyString /\ fPos = EmptyString /\ fOut = FALSE
ReplaceIdle == rRow = <<>> /\ rRules = <<>> /\ rOut = <<>>

SplitIdle ==
  sRow = <<>> /\ sDelim = EmptyString /\ sExpected = 0 /\ sOut = [fields |-> <<>>, err |-> "nil"]

ExtractIdle ==
  /\ eRow = <<>> /\ eRules = <<>>
  /\ eOut = [row |-> <<>>, extracts |-> <<>>, errors |-> <<>>, log |-> <<>>]

HashIdle ==
  /\ HashColumns = <<>> /\ HashMap = <<>> /\ HashCounts = <<>>
  /\ hSplits = <<>> /\ hFormat = 0
  /\ hOut = [splits |-> <<>>, hash |-> <<>>, panic |-> FALSE]
  /\ hLog = <<>>

NewIdle ==
  /\ nInputs = <<>> /\ nOut = [scnr |-> Nil, err |-> "nil"]

EngineIdle ==
  /\ gThreads = 0 /\ gFiles = 0 /\ gNRepl = 0 /\ gNExtr = 0
  /\ gMain = "idle" /\ gNext = 1 /\ gTasks = <<>> /\ gClosed = FALSE
  /\ gPc = <<>> /\ gIdx = <<>> /\ gFile = <<>> /\ gArg = <<>>
  /\ gFlagsPath = 0 /\ gRegex = <<>> /\ gParsed = <<>>
  /\ gWatch = FALSE /\ gRows = 0 /\ gDir = {} /\ gDirAtStart = {} /\ gMoved = {}
  /\ gLoops = 0 /\ gExit = 0
  /\ gLocked = <<>> /\ gFinal = <<>> /\ gInode = <<>> /\ gFd = <<>>
  /\ gWritten = <<>> /\ gFlushed = <<>> /\ gReader = <<>>

PipeIdle ==
  /\ pLines = <<>> /\ pCfg = <<>> /\ pDone = 0 /\ pOut = <<>> /\ pPanic = FALSE

PureIdle == FilterIdle /\ ReplaceIdle /\ SplitIdle /\ ExtractIdle /\ HashIdle /\ NewIdle /\ EngineIdle /\ PipeIdle

Init == mode = "stream" /\ StreamInit /\ PureIdle

(***************************************************************************)
(* Caller operations.                                                      *)
(***************************************************************************)
\* OpenFileScanner: os.Open succeeds (file and scanner attached) or fails.
OpenFileScanner ==
  /\ mode = "stream" /\ scanner = "nil" /\ file = "nil"
  /\ \E ok \in BOOLEAN :
       IF ok
       THEN /\ file' = "open"
            /\ scanner' = "file"
            /\ hist' = [hist EXCEPT !.lastOp = "OpenFileScanner"]
       ELSE /\ UNCHANGED <<file, scanner>>
            /\ hist' = [hist EXCEPT !.lastOp = "OpenFileScannerFailed"]
  /\ UNCHANGED <<mode, nLines, longAt, processedInputDirectory, consumerMode, rpos, rpart, spos, serr,
                 pc, panicking, defers, row, dataCap, errCap, dataChan, errorChan, dataCloses,
                 errorCloses, received, errsReceived, dataClosedSeen, errorClosedSeen,
                 fsOrig, fsProc, shutdownCalls, pureVars>>

\* OpenIoReaderScanner: attaches a bufio.Scanner to the reader; scnr.file is not set.
OpenIoReaderScanner ==
  /\ mode = "stream" /\ scanner = "nil" /\ file = "nil"
  /\ scanner' = "reader"
  /\ hist' = [hist EXCEPT !.lastOp = "OpenIoReaderScanner"]
  /\ UNCHANGED <<mode, nLines, longAt, processedInputDirectory, consumerMode, file, rpos, rpart, spos,
                 serr, pc, panicking, defers, row, dataCap, errCap, dataChan, errorChan, dataCloses,
                 errorCloses, received, errsReceived, dataClosedSeen, errorClosedSeen,
                 fsOrig, fsProc, shutdownCalls, pureVars>>

\* The closes the worker defers when it starts, in registration order:
\* defer close(scnr.dataChan); defer close(scnr.errorChan).  They run last-in first-out.
Defers == <<"dataChan", "errorChan">>

\* Read: makes the two channels and starts the worker goroutine.
Read ==
  /\ mode = "stream" /\ scanner # "nil" /\ pc = "idle"
  /\ \E db \in 0..MaxBuffer, eb \in 0..MaxBuffer :
       /\ dataCap' = db
       /\ errCap' = eb
  /\ dataChan' = <<>>
  /\ errorChan' = <<>>
  /\ defers' = Defers
  /\ pc' = "scan"
  /\ hist' = [hist EXCEPT !.lastOp = "Read"]
  /\ UNCHANGED <<mode, nLines, longAt, processedInputDirectory, consumerMode, file, scanner,
                 rpos, rpart, spos, serr, panicking, row, dataCloses, errorCloses, received,
                 errsReceived, dataClosedSeen, errorClosedSeen, fsOrig, fsProc,
                 shutdownCalls, pureVars>>

\* Shutdown called by the caller, in any lifecycle state.
Shutdown ==
  /\ mode = "stream" /\ pc # "crashed" /\ shutdownCalls < MaxShutdownCalls
  /\ file' = ShutdownFile(file)
  /\ shutdownCalls' = shutdownCalls + 1
  /\ hist' = [hist EXCEPT !.lastOp = "Shutdown",
                          !.fileBeforeShutdown = file,
                          !.callerClosedFile = @ \/ (file = "open" /\ pc \in {"idle", "scan", "sendData", "sendErr"}),
                          !.closedInScan = @ \/ (file = "open" /\ pc = "scan" /\ rpos = spos /\ serr = "nil")]
  /\ UNCHANGED <<mode, nLines, longAt, processedInputDirectory, consumerMode, scanner, rpos, rpart,
                 spos, serr, pc, panicking, defers, row, dataCap, errCap, dataChan, errorChan,
                 dataCloses, errorCloses, received, errsReceived, dataClosedSeen,
                 errorClosedSeen, fsOrig, fsProc, pureVars>>

(***************************************************************************)
(* bufio.Scanner.Scan with the ScanLines split function, as used by the   *)
(* loop "for scnr.scanner.Scan()".  The result says whether a token was   *)
(* produced and gives the scanner's new positions and sticky error.       *)
(***************************************************************************)
\* Complete lines the reader can hand over: those before an over-long line.
ReadLimit == IF longAt = 0 THEN nLines ELSE longAt - 1

ScanResult(ok, r, s, p, e, fault) ==
  [ok |-> ok, rpos |-> r, spos |-> s, part |-> p, serr |-> e, fault |-> fault]

\* What a read that ends after line n can leave in the buffer besides complete
\* lines: nothing, or the beginning of line n + 1.
Partials(n) == IF n < nLines THEN BOOLEAN ELSE {FALSE}

\* A Scan() that finds the file closed has the beginning of a line to hand out:
\* it was in the buffer, or this Scan() read it before the file was closed.
PartBuffered == rpart \/ (hist.closedInScan /\ rpos < nLines)

\* The worker is at the over-long line and none of it has been handed out.
AtLongLine == longAt # 0 /\ spos + 1 = longAt

\* The read fails with nothing new: the beginning of a line that is in the buffer
\* is the final token, else Scan() is false.
FinalToken(part, e, fault) ==
  IF part THEN ScanResult(TRUE, rpos + 1, spos + 1, FALSE, e, fault)
  ELSE ScanResult(FALSE, rpos, spos, FALSE, e, fault)

ScanResults ==
  IF rpos > spos
  THEN \* a buffered line is the token, also when an error is already recorded
       {ScanResult(TRUE, rpos, spos + 1, rpart, serr, FALSE)}
  ELSE IF serr # "nil"
  THEN \* no complete line buffered and an error recorded: the split function is
       \* run as at end of input and hands out what is left as a final token
       {FinalToken(rpart, serr, FALSE)}
  ELSE IF scanner = "file" /\ file = "closed"
  THEN \* reading a closed *os.File fails at once, so the buffer cannot fill up
       {FinalToken(part, "ReadErr", FALSE) : part \in {rpart, PartBuffered}}
  ELSE IF AtLongLine
  THEN \* the buffer fills up without a newline: ErrTooLong; or the reader
       \* returns an I/O error first
       {ScanResult(FALSE, rpos, spos, TRUE, "ErrTooLong", FALSE)}
       \cup {FinalToken(part, "ReadErr", TRUE) : part \in {rpart, TRUE}}
  ELSE (IF rpos = nLines
        THEN {ScanResult(FALSE, rpos, spos, FALSE, "EOF", FALSE)}
        ELSE UNION {{ScanResult(TRUE, rpos + c, spos + 1, p, "nil", FALSE) : p \in Partials(rpos + c)} :
                       c \in 1..Min(MaxChunk, ReadLimit - rpos)})
       \cup
       \* the underlying reader returns c lines, and maybe the beginning of the
       \* next, together with an I/O error
       UNION {{IF c > 0 THEN ScanResult(TRUE, rpos + c, spos + 1, p, "ReadErr", TRUE)
                        ELSE FinalToken(rpart \/ p, "ReadErr", TRUE) : p \in Partials(rpos + c)} :
                 c \in 0..Min(MaxChunk, ReadLimit - rpos)}

\* scanner.Err(): the sticky error, nil for EOF.
ScannerErr(e) == IF e = "EOF" THEN "nil" ELSE e

(***************************************************************************)
(* The Read worker goroutine, one action per step.                         *)
(***************************************************************************)
cfgVars == <<nLines, longAt, processedInputDirectory, consumerMode>>
consumerVars == <<received, errsReceived, dataClosedSeen, errorClosedSeen>>

\* Where the loop goes after Scan(): out of the loop when Scan() is false, else to
\* the error send (and "continue") when Err() is not nil, else to the data send.
AfterScan_breakOnError(ok, e) ==
  IF ok /\ e = "nil" THEN "sendData" ELSE "endOfStream"

AfterScan(ok, e) ==
  IF ~ok THEN "endOfStream" ELSE IF e # "nil" THEN "sendErr" ELSE "sendData"

\* Where the worker goes after os.Rename: a failure is sent on the error channel.
AfterRename_ignoreFailure(ok) == "return"

AfterRename(ok) == IF ok THEN "return" ELSE "sendRenameErr"

\* A send on a channel made with make(chan T, capacity) completes at once only
\* while fewer than capacity values are buffered; otherwise the sender waits for
\* a receiver.
HasRoom_unbounded(buffered, capacity) == TRUE

HasRoom(buffered, capacity) == Len(buffered) < capacity

\* for scnr.scanner.Scan() { row := Text(); if err := Err(); err != nil {...} ... }
WScan ==
  /\ mode = "stream" /\ pc = "scan"
  /\ \E r \in ScanResults :
       /\ rpos' = r.rpos
       /\ rpart' = r.part
       /\ spos' = r.spos
       /\ serr' = r.serr
       /\ IF r.ok
          THEN /\ row' = r.spos
               /\ pc' = AfterScan(TRUE, ScannerErr(r.serr))
               /\ hist' = [hist EXCEPT !.lastOp = "WScan",
                                       !.ioFault = @ \/ r.fault,
                                       !.dropped = IF AfterScan(TRUE, ScannerErr(r.serr)) # "sendData"
                                                   THEN @ \cup {r.spos} ELSE @]
          ELSE /\ row' = row
               /\ pc' = AfterScan(FALSE, ScannerErr(r.serr))
               /\ hist' = [hist EXCEPT !.lastOp = "WScan", !.ioFault = @ \/ r.fault]
  /\ UNCHANGED <<mode, defers, cfgVars, file, scanner, panicking, dataCap, errCap, dataChan, errorChan,
                 dataCloses, errorCloses, consumerVars, fsOrig, fsProc, shutdownCalls, pureVars>>

\* scnr.dataChan <- row, when the buffer has room
WSendData ==
  /\ mode = "stream" /\ pc = "sendData"
  /\ HasRoom(dataChan, dataCap)
  /\ dataChan' = Append(dataChan, row)
  /\ pc' = "scan"
  /\ hist' = [hist EXCEPT !.lastOp = "WSendData",
                          !.dataSent = Append(@, row),
                          !.sendOnClosed = @ \/ dataCloses > 0]
  /\ UNCHANGED <<mode, cfgVars, file, scanner, rpos, rpart, spos, serr, panicking, defers, row, dataCap,
                 errCap, errorChan, dataCloses, errorCloses, consumerVars, fsOrig, fsProc,
                 shutdownCalls, pureVars>>

\* scnr.errorChan <- err; continue, when the buffer has room
WSendErr ==
  /\ mode = "stream" /\ pc = "sendErr"
  /\ HasRoom(errorChan, errCap)
  /\ errorChan' = Append(errorChan, ScannerErr(serr))
  /\ pc' = "scan"
  /\ hist' = [hist EXCEPT !.lastOp = "WSendErr",
                          !.errsSent = Append(@, ScannerErr(serr)),
                          !.sendOnClosed = @ \/ errorCloses > 0]
  /\ UNCHANGED <<mode, cfgVars, file, scanner, rpos, rpart, spos, serr, panicking, defers, row, dataCap,
                 errCap, dataChan, dataCloses, errorCloses, consumerVars, fsOrig, fsProc,
                 shutdownCalls, pureVars>>

\* processedFileName := scnr.file.Name(); scnr.Shutdown()
\* Name() dereferences scnr.file: with no file attached the goroutine panics and
\* only the deferred closes run.
WEndOfStream ==
  /\ mode = "stream" /\ pc = "endOfStream"
  /\ IF file = "nil"
     THEN /\ panicking' = TRUE
          /\ pc' = "return"
          /\ file' = file
     ELSE /\ panicking' = panicking
          /\ file' = ShutdownFile(file)
          /\ pc' = IF processedInputDirectory THEN "rename" ELSE "return"
  /\ hist' = [hist EXCEPT !.lastOp = "WEndOfStream"]
  /\ UNCHANGED <<mode, cfgVars, scanner, rpos, rpart, spos, serr, defers, row, dataCap, errCap,
                 dataChan, errorChan, dataCloses, errorCloses, consumerVars, fsOrig, fsProc,
                 shutdownCalls, pureVars>>

\* os.Rename(processedFileName, processedInputDirectory/base): it moves the file,
\* or fails (destination unusable, source gone) and leaves everything in place.
WRename ==
  /\ mode = "stream" /\ pc = "rename"
  /\ \E ok \in BOOLEAN :
       /\ IF ok /\ fsOrig # "none"
          THEN /\ fsProc' = fsOrig
               /\ fsOrig' = "none"
          ELSE UNCHANGED <<fsOrig, fsProc>>
       /\ pc' = AfterRename(ok /\ fsOrig # "none")
       /\ hist' = [hist EXCEPT !.lastOp = "WRename",
                               !.rename = IF ok /\ fsOrig # "none" THEN "ok" ELSE "failed",
                               !.dataOpenAtRename = (dataCloses = 0),
                               !.bufferedAtRename = Len(dataChan)]
  /\ UNCHANGED <<mode, cfgVars, file, scanner, rpos, rpart, spos, serr, panicking, defers, row,
                 dataCap, errCap, dataChan, errorChan, dataCloses, errorCloses, consumerVars,
                 shutdownCalls, pureVars>>

\* if err != nil { scnr.errorChan <- err }, when the buffer has room
WSendRenameErr ==
  /\ mode = "stream" /\ pc = "sendRenameErr"
  /\ HasRoom(errorChan, errCap)
  /\ errorChan' = Append(errorChan, "RenameErr")
  /\ pc' = "return"
  /\ hist' = [hist EXCEPT !.lastOp = "WSendRenameErr",
                          !.errsSent = Append(@, "RenameErr"),
                          !.sendOnClosed = @ \/ errorCloses > 0]
  /\ UNCHANGED <<mode, cfgVars, file, scanner, rpos, rpart, spos, serr, panicking, defers, row,
                 dataCap, errCap, dataChan, dataCloses, errorCloses, consumerVars, fsOrig,
                 fsProc, shutdownCalls, pureVars>>

\* The goroutine returns (or unwinds): the deferred closes run last-in first-out.
WDeferredClose ==
  /\ mode = "stream" /\ pc = "return" /\ defers # <<>>
  /\ LET ch == defers[Len(defers)]
     IN /\ dataCloses' = IF ch = "dataChan" THEN dataCloses + 1 ELSE dataCloses
        /\ errorCloses' = IF ch = "errorChan" THEN errorCloses + 1 ELSE errorCloses
  /\ defers' = SubSeq(defers, 1, Len(defers) - 1)
  /\ hist' = [hist EXCEPT !.lastOp = "WDeferredClose"]
  /\ UNCHANGED <<mode, cfgVars, file, scanner, rpos, rpart, spos, serr, pc, panicking, row, dataCap,
                 errCap, dataChan, errorChan, consumerVars, fsOrig, fsProc, shutdownCalls,
                 pureVars>>

\* The goroutine is over; an unrecovered panic takes the whole program down.
WExit ==
  /\ mode = "stream" /\ pc = "return" /\ defers = <<>>
  /\ pc' = IF panicking THEN "crashed" ELSE "done"
  /\ hist' = [hist EXCEPT !.lastOp = "WExit"]
  /\ UNCHANGED <<mode, cfgVars, file, scanner, rpos, rpart, spos, serr, panicking, defers, row,
                 dataCap, errCap, dataChan, errorChan, dataCloses, errorCloses, consumerVars,
                 fsOrig, fsProc, shutdownCalls, pureVars>>

(***************************************************************************)
(* The consumer: "for row := range dataChan" and "for err := range        *)
(* errorChan".  A receive takes the head of the buffer, or takes the value *)
(* directly from a sender blocked on a full (or unbuffered) channel, or    *)
(* observes that the channel is closed and empty.                          *)
(***************************************************************************)
ChannelsMade == pc \notin {"idle", "crashed"}

CRecvData ==
  /\ mode = "stream" /\ ChannelsMade /\ ~dataClosedSeen
  /\ Len(dataChan) > 0
  /\ received' = Append(received, Head(dataChan))
  /\ dataChan' = Tail(dataChan)
  /\ hist' = [hist EXCEPT !.lastOp = "CRecvData"]
  /\ UNCHANGED <<mode, cfgVars, file, scanner, rpos, rpart, spos, serr, pc, panicking, defers, row, dataCap,
                 errCap, errorChan, dataCloses, errorCloses, errsReceived, dataClosedSeen,
                 errorClosedSeen, fsOrig, fsProc, shutdownCalls, pureVars>>

CRecvDataHandoff ==
  /\ mode = "stream" /\ ChannelsMade /\ ~dataClosedSeen
  /\ Len(dataChan) = 0 /\ dataCap = 0 /\ pc = "sendData"
  /\ received' = Append(received, row)
  /\ pc' = "scan"
  /\ hist' = [hist EXCEPT !.lastOp = "CRecvDataHandoff",
                          !.dataSent = Append(@, row),
                          !.sendOnClosed = @ \/ dataCloses > 0]
  /\ UNCHANGED <<mode, cfgVars, file, scanner, rpos, rpart, spos, serr, panicking, defers, row, dataCap,
                 errCap, dataChan, errorChan, dataCloses, errorCloses, errsReceived,
                 dataClosedSeen, errorClosedSeen, fsOrig, fsProc, shutdownCalls, pureVars>>

CRecvDataClosed ==
  /\ mode = "stream" /\ ChannelsMade /\ ~dataClosedSeen
  /\ Len(dataChan) = 0 /\ dataCloses > 0
  /\ dataClosedSeen' = TRUE
  /\ hist' = [hist EXCEPT !.lastOp = "CRecvDataClosed"]
  /\ UNCHANGED <<mode, cfgVars, file, scanner, rpos, rpart, spos, serr, pc, panicking, defers, row, dataCap,
                 errCap, dataChan, errorChan, dataCloses, errorCloses, received, errsReceived,
                 errorClosedSeen, fsOrig, fsProc, shutdownCalls, pureVars>>

\* In the "dataFirst" pattern the error channel is ranged over after the data channel.
MayRecvErr == consumerMode = "dataFirst" => dataClosedSeen

CRecvErr ==
  /\ mode = "stream" /\ ChannelsMade /\ ~errorClosedSeen /\ MayRecvErr
  /\ Len(errorChan) > 0
  /\ errsReceived' = Append(errsReceived, Head(errorChan))
  /\ errorChan' = Tail(errorChan)
  /\ hist' = [hist EXCEPT !.lastOp = "CRecvErr"]
  /\ UNCHANGED <<mode, cfgVars, file, scanner, rpos, rpart, spos, serr, pc, panicking, defers, row, dataCap,
                 errCap, dataChan, dataCloses, errorCloses, received, dataClosedSeen,
                 errorClosedSeen, fsOrig, fsProc, shutdownCalls, pureVars>>

CRecvErrHandoff ==
  /\ mode = "stream" /\ ChannelsMade /\ ~errorClosedSeen /\ MayRecvErr
  /\ Len(errorChan) = 0 /\ errCap = 0 /\ pc \in {"sendErr", "sendRenameErr"}
  /\ errsReceived' = Append(errsReceived, IF pc = "sendErr" THEN ScannerErr(serr) ELSE "RenameErr")
  /\ pc' = IF pc = "sendErr" THEN "scan" ELSE "return"
  /\ hist' = [hist EXCEPT !.lastOp = "CRecvErrHandoff",
                          !.errsSent = Append(@, IF pc = "sendErr" THEN ScannerErr(serr) ELSE "RenameErr"),
                          !.sendOnClosed = @ \/ errorCloses > 0]
  /\ UNCHANGED <<mode, cfgVars, file, scanner, rpos, rpart, spos, serr, panicking, defers, row, dataCap,
                 errCap, dataChan, errorChan, dataCloses, errorCloses, received,
                 dataClosedSeen, errorClosedSeen, fsOrig, fsProc, shutdownCalls, pureVars>>

CRecvErrClosed ==
  /\ mode = "stream" /\ ChannelsMade /\ ~errorClosedSeen /\ MayRecvErr
  /\ Len(errorChan) = 0 /\ errorCloses > 0
  /\ errorClosedSeen' = TRUE
  /\ hist' = [hist EXCEPT !.lastOp = "CRecvErrClosed"]
  /\ UNCHANGED <<mode, cfgVars, file, scanner, rpos, rpart, spos, serr, pc, panicking, defers, row, dataCap,
                 errCap, dataChan, errorChan, dataCloses, errorCloses, received, errsReceived,
                 dataClosedSeen, fsOrig, fsProc, shutdownCalls, pureVars>>

Next ==
  \/ OpenFileScanner \/ OpenIoReaderScanner \/ Read \/ Shutdown
  \/ WScan \/ WSendData \/ WSendErr \/ WEndOfStream \/ WRename \/ WSendRenameErr
  \/ WDeferredClose \/ WExit
  \/ CRecvData \/ CRecvDataHandoff \/ CRecvDataClosed
  \/ CRecvErr \/ CRecvErrHandoff \/ CRecvErrClosed

Spec == Init /\ [][Next]_vars

(***************************************************************************)
(* Filter and Replace applied to lines and configurations drawn from the   *)
(* bounded sets above.                                                     *)
(***************************************************************************)
InitFilter ==
  /\ mode = "filter" /\ StreamIdle /\ ReplaceIdle /\ SplitIdle /\ ExtractIdle /\ HashIdle /\ NewIdle /\ EngineIdle /\ PipeIdle
  /\ fRow \in Rows
  /\ fNeg \in Regexes \cup {EmptyString}
  /\ fPos \in Regexes \cup {EmptyString}
  /\ fOut = FALSE

\* NewScanner sets the filters from the configuration, then Filter(row) is called.
FilterCall ==
  /\ mode = "filter"
  /\ fOut' = Filter(fRow, setFilter(fNeg), setFilter(fPos))
  /\ mode' = "filtered"
  /\ UNCHANGED <<streamVars, pipeVars, engineVars, newVars, hashVars, extractVars, replaceVars, splitVars, fRow, fNeg, fPos>>

SpecFilter == InitFilter /\ [][FilterCall]_vars

InitReplace ==
  /\ mode = "replace" /\ StreamIdle /\ FilterIdle /\ SplitIdle /\ ExtractIdle /\ HashIdle /\ NewIdle /\ EngineIdle /\ PipeIdle
  /\ rRow \in Rows
  /\ rRules \in RuleLists
  /\ rOut = <<>>

ReplaceCall ==
  /\ mode = "replace"
  /\ rOut' = Replace(rRules, rRow)
  /\ mode' = "replaced"
  /\ UNCHANGED <<streamVars, pipeVars, engineVars, newVars, hashVars, extractVars, filterVars, splitVars, rRow, rRules>>

SpecReplace == InitReplace /\ [][ReplaceCall]_vars

\* Lines with date-time strings in them, and rule lists with the date-time rule.
DateRows == UNION {[1..n -> {"a"} \cup DateTimeTexts] : n \in 0..MaxDateRowLen}
DateRuleLists == {<<[RegexString |-> DATE_TIME_REGEX, Replacement |-> t]>> : t \in Templates}

InitDate ==
  /\ mode = "date" /\ StreamIdle /\ FilterIdle /\ SplitIdle /\ ExtractIdle /\ HashIdle /\ NewIdle /\ EngineIdle /\ PipeIdle
  /\ rRow \in DateRows
  /\ rRules \in DateRuleLists
  /\ rOut = <<>>

DateReplaceCall ==
  /\ mode = "date"
  /\ rOut' = Replace(rRules, rRow)
  /\ mode' = "dated"
  /\ UNCHANGED <<streamVars, pipeVars, engineVars, newVars, hashVars, extractVars, filterVars, splitVars, rRow, rRules>>

SpecDate == InitDate /\ [][DateReplaceCall]_vars

InitSplit ==
  /\ mode = "split" /\ StreamIdle /\ FilterIdle /\ ReplaceIdle /\ ExtractIdle /\ HashIdle /\ NewIdle /\ EngineIdle /\ PipeIdle
  /\ sRow \in Rows
  /\ sDelim \in Delimiters
  /\ sExpected \in 0..MaxExpected
  /\ sOut = [fields |-> <<>>, err |-> "nil"]

SplitCall ==
  /\ mode = "split"
  /\ sOut' = Split(sDelim, sExpected, sRow)
  /\ mode' = "splitted"
  /\ UNCHANGED <<streamVars, pipeVars, engineVars, newVars, hashVars, extractVars, filterVars, replaceVars, sRow, sDelim, sExpected>>

SpecSplit == InitSplit /\ [][SplitCall]_vars

InitExtract ==
  /\ mode = "extract" /\ StreamIdle /\ FilterIdle /\ ReplaceIdle /\ SplitIdle /\ HashIdle /\ NewIdle /\ EngineIdle /\ PipeIdle
  /\ eRow \in FieldRows
  /\ eRules \in ExtractLists
  /\ eOut = [row |-> <<>>, extracts |-> <<>>, errors |-> <<>>, log |-> <<>>]

ExtractCall ==
  /\ mode = "extract"
  /\ eOut' = Extract(eRules, eRow)
  /\ mode' = "extracted"
  /\ UNCHANGED <<streamVars, pipeVars, engineVars, newVars, hashVars, filterVars, replaceVars, splitVars, eRow, eRules>>

SpecExtract == InitExtract /\ [][ExtractCall]_vars

\* NewScanner: empty maps, the hash columns as configured.
InitHash ==
  /\ mode = "hash" /\ StreamIdle /\ FilterIdle /\ ReplaceIdle /\ SplitIdle /\ ExtractIdle /\ NewIdle /\ EngineIdle /\ PipeIdle
  /\ HashColumns \in HashColumnLists
  /\ HashMap = <<>> /\ HashCounts = <<>>
  /\ hSplits = <<>> /\ hFormat = 0
  /\ hOut = [splits |-> <<>>, hash |-> <<>>, panic |-> FALSE]
  /\ hLog = <<>>

\* SplitsExcludeHashColumns(splits, hashFormat).  hLog notes, for every call that
\* returned, the hash and the joined hash-column values.
SplitsExcludeHashColumns ==
  /\ mode = "hash" /\ Len(hLog) < MaxCalls
  /\ \E splits \in HashRows, hashFormat \in HashFormats :
       LET sortedHashColumns == IntSlice(HashColumns)
           hashString == Join(HashSplits(sortedHashColumns, splits), OutputDelimiter)
           hash == Hash(hashString, hashFormat)
       IN  /\ hSplits' = splits
           /\ hFormat' = hashFormat
           /\ IF HashPanics(sortedHashColumns, splits)
              THEN /\ mode' = "hashPanicked"
                   /\ hOut' = [splits |-> <<>>, hash |-> <<>>, panic |-> TRUE]
                   /\ UNCHANGED <<HashMap, HashCounts, hLog>>
              ELSE IF MakePanics(sortedHashColumns, splits)
              THEN /\ HashMap' = MapPut(HashMap, hash, hashString)
                   /\ HashCounts' = MapIncrement(HashCounts, hash)
                   /\ mode' = "hashPanicked"
                   /\ hOut' = [splits |-> <<>>, hash |-> <<>>, panic |-> TRUE]
                   /\ UNCHANGED hLog
              ELSE /\ HashMap' = MapPut(HashMap, hash, hashString)
                   /\ HashCounts' = MapIncrement(HashCounts, hash)
                   /\ hOut' = [splits |-> ExcludeFrom(splits, 1, sortedHashColumns, FALSE, hash),
                               hash |-> hash, panic |-> FALSE]
                   /\ hLog' = Append(hLog, [hash |-> hash, hashString |-> hashString,
                                             splits |-> splits, format |-> hashFormat])
                   /\ UNCHANGED mode
  /\ UNCHANGED <<streamVars, pipeVars, engineVars, newVars, filterVars, replaceVars, splitVars, extractVars, HashColumns>>

SpecHash == InitHash /\ [][SplitsExcludeHashColumns]_vars

InitNew ==
  /\ mode = "new" /\ StreamIdle /\ FilterIdle /\ ReplaceIdle /\ SplitIdle /\ ExtractIdle /\ HashIdle /\ EngineIdle /\ PipeIdle
  /\ nInputs \in InputsSet
  /\ nOut = [scnr |-> Nil, err |-> "nil"]

NewScannerCall ==
  /\ mode = "new"
  /\ nOut' = NewScanner(nInputs)
  /\ mode' = "constructed"
  /\ UNCHANGED <<streamVars, pipeVars, engineVars, filterVars, replaceVars, splitVars, extractVars, hashVars, nInputs>>

SpecNew == InitNew /\ [][NewScannerCall]_vars

(***************************************************************************)
(* processScanner: the loop over the data channel.  The flags uniqueId,    *)
(* uniqueIdRegexString and sqlColumns are not set, and stdout is off.      *)
(***************************************************************************)
\* HashingEnabled: the hash column list is not nil and not empty (<<>> stands for
\* both, a nil slice having length 0).
HashingEnabled == Len(HashColumns) > 0

\* The scanner configurations of the bounded model.
PipeConfigs ==
  [ negativeFilter : {Nil, Lit(<<"a", "b">>)},
    positiveFilter : {Nil, Lit(<<"a">>)},
    replace : {<<>>, <<[RegexString |-> Lit(<<"a", "b">>), Replacement |-> <<"b">>]>>,
               <<[RegexString |-> Lit(<<"a">>), Replacement |-> <<>>]>>},
    inputDelimiter : {Lit(<<"b">>)},
    expectedFieldCount : {2},
    extract : {<<>>, <<ExtractRule(<<0>>, Lit(<<"a">>), 0, <<"b">>)>>},
    hashFormat : {HASH_FORMAT_STRING, HASH_FORMAT_SQL} ]
PipeLines == UNION {[1..n -> Rows] : n \in 0..MaxPipeLines}

\* The text of an output row: the fields, "|EXTRACTS|", the extracts.
OutputRow(fields, extracts) ==
  Join(fields, OutputDelimiter) \o <<"|EXTRACTS|">> \o Join(extracts, OutputDelimiter)

\* scnr.Filter(row) on the line as received: FALSE means the loop continues
\* with the next line.
PassesFilter(cfg, r) == ~Filter(r, cfg.negativeFilter, cfg.positiveFilter)

InitPipe ==
  /\ mode = "pipe" /\ StreamIdle /\ FilterIdle /\ ReplaceIdle /\ SplitIdle /\ ExtractIdle /\ EngineIdle /\ NewIdle
  /\ pLines \in PipeLines
  /\ pCfg \in PipeConfigs
  /\ pDone = 0 /\ pOut = <<>> /\ pPanic = FALSE
  /\ HashColumns \in {<<>>, <<0>>, <<1>>, <<0, 1>>, <<0, 0, 0>>}
  /\ HashMap = <<>> /\ HashCounts = <<>>
  /\ hSplits = <<>> /\ hFormat = 0
  /\ hOut = [splits |-> <<>>, hash |-> <<>>, panic |-> FALSE]
  /\ hLog = <<>>

\* One pass of the loop body for the next line of the data channel: Filter on the
\* line as received, then Replace, Split (its error is logged only), Extract, which
\* writes tokens into the fields it is given, SplitsExcludeHashColumns when hashing
\* is enabled, and one WriteString.  pOut notes with each row the index of its line.
PipeRow ==
  /\ mode = "pipe" /\ ~pPanic /\ pDone < Len(pLines)
  /\ pDone' = pDone + 1
  /\ LET line == pLines[pDone + 1]
         replaced == Replace(pCfg.replace, line)
         splits == Split(pCfg.inputDelimiter, pCfg.expectedFieldCount, replaced).fields
         ex == Extract(pCfg.extract, splits)
         sortedHashColumns == IntSlice(HashColumns)
         hashString == Join(HashSplits(sortedHashColumns, ex.row), OutputDelimiter)
         hash == Hash(hashString, pCfg.hashFormat)
     IN  IF ~PassesFilter(pCfg, line)
         THEN UNCHANGED <<pOut, pPanic, HashMap, HashCounts>>
         ELSE IF ~HashingEnabled
         THEN /\ pOut' = Append(pOut, [line |-> pDone + 1, text |-> OutputRow(ex.row, ex.extracts)])
              /\ UNCHANGED <<pPanic, HashMap, HashCounts>>
         ELSE IF HashPanics(sortedHashColumns, ex.row)
         THEN /\ pPanic' = TRUE
              /\ UNCHANGED <<pOut, HashMap, HashCounts>>
         ELSE IF MakePanics(sortedHashColumns, ex.row)
         THEN /\ HashMap' = MapPut(HashMap, hash, hashString)
              /\ HashCounts' = MapIncrement(HashCounts, hash)
              /\ pPanic' = TRUE
              /\ UNCHANGED pOut
         ELSE /\ HashMap' = MapPut(HashMap, hash, hashString)
              /\ HashCounts' = MapIncrement(HashCounts, hash)
              /\ pOut' = Append(pOut, [line |-> pDone + 1,
                                       text |-> OutputRow(ExcludeFrom(ex.row, 1, sortedHashColumns, FALSE, hash),
                                                          ex.extracts)])
              /\ UNCHANGED pPanic
  /\ UNCHANGED <<mode, streamVars, engineVars, newVars, filterVars, replaceVars, splitVars, extractVars,
                 pLines, pCfg, HashColumns, hSplits, hFormat, hOut, hLog>>

SpecPipe == InitPipe /\ [][PipeRow]_vars

(***************************************************************************)
(* parseFileEngine: the main goroutine feeds the file paths to a tasks      *)
(* channel; every worker goroutine receives a path, stores it in the flags *)
(* variable the closures share, and calls parseFile(inputs, flags), which  *)
(* builds a Scanner from the one Inputs value with NewScanner and then     *)
(* processes the file.  Files are numbered 1..gFiles.  The Replacement and *)
(* Extract objects of Inputs are reached through pointers, so every        *)
(* Scanner holds the same objects: they are numbered 1..gNRepl + gNExtr,   *)
(* the replacements first.                                                 *)
(***************************************************************************)
Workers == 1..gThreads
RuleObjects == 1..(gNRepl + gNExtr)

InitEngine ==
  /\ mode = "engine" /\ StreamIdle /\ FilterIdle /\ ReplaceIdle /\ SplitIdle /\ ExtractIdle /\ HashIdle /\ NewIdle /\ PipeIdle
  /\ gThreads \in 1..MaxThreads
  /\ gFiles \in 0..MaxFiles
  /\ gNRepl \in 0..MaxShared
  /\ gNExtr \in 0..MaxShared
  /\ gMain = "send" /\ gNext = 1 /\ gTasks = <<>> /\ gClosed = FALSE
  /\ gPc = [w \in 1..gThreads |-> "recv"]
  /\ gIdx = [w \in 1..gThreads |-> 1]
  /\ gFile = [w \in 1..gThreads |-> 0]
  /\ gArg = [w \in 1..gThreads |-> 0]
  /\ gFlagsPath = 0
  /\ gRegex = [o \in 1..(gNRepl + gNExtr) |-> 0]
  /\ gParsed = <<>>
  /\ gWatch \in BOOLEAN
  /\ gRows \in 0..MaxOutRows
  /\ gDir = 1..gFiles
  /\ gDirAtStart = 1..gFiles
  /\ gMoved = {}
  /\ gLoops = 1
  /\ gExit = 0
  /\ gLocked = [f \in 1..gFiles |-> 0]
  /\ gFinal = [f \in 1..gFiles |-> 0]
  /\ gInode = <<>>
  /\ gFd = [w \in 1..gThreads |-> 0]
  /\ gWritten = [w \in 1..gThreads |-> 0]
  /\ gFlushed = [w \in 1..gThreads |-> 0]
  /\ gReader = [w \in 1..gThreads |-> "none"]

engineCfg == <<gThreads, gFiles, gNRepl, gNExtr, gWatch, gRows>>
otherVars == <<streamVars, pipeVars, filterVars, replaceVars, splitVars, extractVars, hashVars, newVars>>
\* The input directory, the output files and each worker's output writer.
dirVars == <<gDir, gDirAtStart, gMoved>>
outVars == <<gLocked, gFinal, gInode, gFd, gWritten, gFlushed>>
\* The program runs: no goroutine has called os.Exit.
Running == mode = "engine" /\ gExit = 0

\* tasks <- fn, on a channel with room for gThreads paths.
EngineSend ==
  /\ Running /\ gMain = "send" /\ gNext <= gFiles /\ Len(gTasks) < gThreads
  /\ gTasks' = Append(gTasks, gNext)
  /\ gNext' = gNext + 1
  /\ UNCHANGED <<mode, otherVars, engineCfg, gMain, gClosed, gPc, gIdx, gFile, gArg, gFlagsPath,
                 gRegex, gParsed, dirVars, outVars, gLoops, gExit, gReader>>

\* close(tasks) after the last path.
EngineClose ==
  /\ Running /\ gMain = "send" /\ gNext > gFiles
  /\ gClosed' = TRUE
  /\ gMain' = "wait"
  /\ UNCHANGED <<mode, otherVars, engineCfg, gNext, gTasks, gPc, gIdx, gFile, gArg, gFlagsPath,
                 gRegex, gParsed, dirVars, outVars, gLoops, gExit, gReader>>

\* wg.Wait() returns when every worker has called wg.Done().
EngineWait ==
  /\ Running /\ gMain = "wait" /\ \A w \in Workers : gPc[w] = "exited"
  /\ gMain' = "done"
  /\ UNCHANGED <<mode, otherVars, engineCfg, gNext, gTasks, gClosed, gPc, gIdx, gFile, gArg,
                 gFlagsPath, gRegex, gParsed, dirVars, outVars, gLoops, gExit, gReader>>

\* main's loop: with ProcessedInputDirectory set it sleeps and calls
\* parseFileEngine(inputs, files, flags) again, with the list os.ReadDir gave
\* before the loop and a fresh copy of main's flags; otherwise it breaks.
EngineLoop ==
  /\ Running /\ gMain = "done" /\ gWatch /\ gLoops < MaxLoops
  /\ gLoops' = gLoops + 1
  /\ gMain' = "send" /\ gNext' = 1 /\ gTasks' = <<>> /\ gClosed' = FALSE
  /\ gPc' = [w \in Workers |-> "recv"]
  /\ gFlagsPath' = 0
  /\ gParsed' = <<>>
  /\ gDirAtStart' = gDir
  /\ UNCHANGED <<mode, otherVars, engineCfg, gIdx, gFile, gArg, gRegex, gDir, gMoved, outVars, gExit, gReader>>

\* Another program puts a new file into Inputs.DataDirectory while this one runs.
FileAppears ==
  /\ Running /\ gWatch /\ (gFiles + 1) \notin gDir \cup gMoved
  /\ gDir' = gDir \cup {gFiles + 1}
  /\ UNCHANGED <<mode, otherVars, engineCfg, gMain, gNext, gTasks, gClosed, gPc, gIdx, gFile, gArg,
                 gFlagsPath, gRegex, gParsed, gDirAtStart, gMoved, outVars, gLoops, gExit, gReader>>

\* for file := range tasks: the next path is received.
WorkerRecv(w) ==
  /\ Running /\ gPc[w] = "recv" /\ gTasks # <<>>
  /\ gFile' = [gFile EXCEPT ![w] = Head(gTasks)]
  /\ gTasks' = Tail(gTasks)
  /\ gPc' = [gPc EXCEPT ![w] = "setPath"]
  /\ UNCHANGED <<mode, otherVars, engineCfg, gMain, gNext, gClosed, gIdx, gArg, gFlagsPath,
                 gRegex, gParsed, dirVars, outVars, gLoops, gExit, gReader>>

\* The range loop ends when the channel is closed and empty; wg.Done().
WorkerExit(w) ==
  /\ Running /\ gPc[w] = "recv" /\ gTasks = <<>> /\ gClosed
  /\ gPc' = [gPc EXCEPT ![w] = "exited"]
  /\ UNCHANGED <<mode, otherVars, engineCfg, gMain, gNext, gTasks, gClosed, gIdx, gFile, gArg,
                 gFlagsPath, gRegex, gParsed, dirVars, outVars, gLoops, gExit, gReader>>

\* flags.dataFilePath = file: flags is the one variable all closures capture.
WorkerSetPath(w) ==
  /\ Running /\ gPc[w] = "setPath"
  /\ gFlagsPath' = gFile[w]
  /\ gPc' = [gPc EXCEPT ![w] = "parseFile"]
  /\ UNCHANGED <<mode, otherVars, engineCfg, gMain, gNext, gTasks, gClosed, gIdx, gFile, gArg,
                 gRegex, gParsed, dirVars, outVars, gLoops, gExit, gReader>>

\* The path parseFile is called with: flags is copied for the call, with whatever
\* path the shared variable holds then.
ParseFileArg(own, shared) == shared

\* parseFile(inputs, flags).
WorkerParseFile(w) ==
  /\ Running /\ gPc[w] = "parseFile"
  /\ gArg' = [gArg EXCEPT ![w] = ParseFileArg(gFile[w], gFlagsPath)]
  /\ gParsed' = Append(gParsed, ParseFileArg(gFile[w], gFlagsPath))
  /\ gIdx' = [gIdx EXCEPT ![w] = 1]
  /\ gPc' = [gPc EXCEPT ![w] = "NewScanner"]
  /\ UNCHANGED <<mode, otherVars, engineCfg, gMain, gNext, gTasks, gClosed, gFile, gFlagsPath,
                 gRegex, dirVars, outVars, gLoops, gExit, gReader>>

\* NewScanner, one rule object per step: scnr.replace[index] = inputs.Replacements[index]
\* copies the pointer, and scnr.replace[index].regex = rgx writes the compiled
\* expression into the object Inputs holds (then the same for the extracts).
WorkerNewScanner(w) ==
  /\ Running /\ gPc[w] = "NewScanner"
  /\ IF gIdx[w] \in RuleObjects
     THEN /\ gRegex' = [gRegex EXCEPT ![gIdx[w]] = w]
          /\ gIdx' = [gIdx EXCEPT ![w] = @ + 1]
          /\ UNCHANGED gPc
     ELSE /\ gPc' = [gPc EXCEPT ![w] = "OpenFileScanner"]
          /\ gIdx' = [gIdx EXCEPT ![w] = 1]
          /\ UNCHANGED gRegex
  /\ UNCHANGED <<mode, otherVars, engineCfg, gMain, gNext, gTasks, gClosed, gFile, gArg,
                 gFlagsPath, gParsed, dirVars, outVars, gLoops, gExit, gReader>>

\* scnr.OpenFileScanner(flags.dataFilePath): os.Open fails when the file is not in
\* the data directory (any more), and parseFile then ends the program: os.Exit(13).
WorkerOpenFileScanner(w) ==
  /\ Running /\ gPc[w] = "OpenFileScanner"
  /\ IF gArg[w] \in gDir
     THEN gPc' = [gPc EXCEPT ![w] = "Read"] /\ UNCHANGED gExit
     ELSE gExit' = 13 /\ UNCHANGED gPc
  /\ UNCHANGED <<mode, otherVars, engineCfg, gMain, gNext, gTasks, gClosed, gIdx, gFile, gArg,
                 gFlagsPath, gRegex, gParsed, dirVars, outVars, gLoops, gReader>>

\* processScanner begins with scnr.Read(100, 100), which starts the Read goroutine
\* of the Scanner and returns the two channels.
WorkerRead(w) ==
  /\ Running /\ gPc[w] = "Read"
  /\ gReader' = [gReader EXCEPT ![w] = "reading"]
  /\ gPc' = [gPc EXCEPT ![w] = "Create"]
  /\ UNCHANGED <<mode, otherVars, engineCfg, gMain, gNext, gTasks, gClosed, gIdx, gFile, gArg,
                 gFlagsPath, gRegex, gParsed, dirVars, outVars, gLoops, gExit>>

\* The Read goroutine has sent every row (the data channel has room for 100, so it
\* waits for no receiver), leaves its loop, closes the input file and, with a
\* processed directory configured, renames the file into it; os.Rename fails when
\* the file is not there any more.  Its deferred calls then close the channels.
ReaderFinish(w) ==
  /\ Running /\ gReader[w] = "reading"
  /\ gReader' = [gReader EXCEPT ![w] = "done"]
  /\ IF gWatch /\ gArg[w] \in gDir
     THEN gDir' = gDir \ {gArg[w]} /\ gMoved' = gMoved \cup {gArg[w]}
     ELSE UNCHANGED <<gDir, gMoved>>
  /\ UNCHANGED <<mode, otherVars, engineCfg, gMain, gNext, gTasks, gClosed, gPc, gIdx, gFile, gArg,
                 gFlagsPath, gRegex, gParsed, gDirAtStart, outVars, gLoops, gExit>>

\* processScanner: os.Create of the output file under its locked name.  A file of
\* that name is truncated and written on (the same file as before), else a new
\* file is made; the bufio.Writer on it starts empty.
WorkerCreate(w) ==
  /\ Running /\ gPc[w] = "Create"
  /\ IF gLocked[gArg[w]] # 0
     THEN /\ gInode' = [gInode EXCEPT ![gLocked[gArg[w]]] = {}]
          /\ gFd' = [gFd EXCEPT ![w] = gLocked[gArg[w]]]
          /\ UNCHANGED gLocked
     ELSE /\ gInode' = Append(gInode, {})
          /\ gFd' = [gFd EXCEPT ![w] = Len(gInode) + 1]
          /\ gLocked' = [gLocked EXCEPT ![gArg[w]] = Len(gInode) + 1]
  /\ gWritten' = [gWritten EXCEPT ![w] = 0]
  /\ gFlushed' = [gFlushed EXCEPT ![w] = 0]
  /\ gPc' = [gPc EXCEPT ![w] = "processScanner"]
  /\ UNCHANGED <<mode, otherVars, engineCfg, gMain, gNext, gTasks, gClosed, gIdx, gFile, gArg,
                 gFlagsPath, gRegex, gParsed, dirVars, gFinal, gLoops, gExit, gReader>>

\* What a flush puts into the file: the rows the writer holds, at their offsets.
Unflushed(w) == (gFlushed[w] + 1)..gWritten[w]

\* processScanner's loop over the rows of the data channel, one rule object per
\* step: Replace and Extract read the regex field of every rule object, then
\* outputWriter.WriteString(out) buffers the row (bufio writes its buffer through
\* when the row fills it).  The loop, and the one over the error channel after
\* it, end when the Read goroutine has closed the channels.
WorkerProcessScanner(w) ==
  /\ Running /\ gPc[w] = "processScanner"
  /\ IF gWritten[w] < gRows
     THEN IF gIdx[w] \in RuleObjects
          THEN /\ gIdx' = [gIdx EXCEPT ![w] = @ + 1]
               /\ UNCHANGED <<gPc, gWritten, gFlushed, gInode, gReader>>
          ELSE /\ gIdx' = [gIdx EXCEPT ![w] = 1]
               /\ gWritten' = [gWritten EXCEPT ![w] = @ + 1]
               /\ \E full \in BOOLEAN :
                    IF full
                    THEN /\ gInode' = [gInode EXCEPT ![gFd[w]] = @ \cup (gFlushed[w] + 1)..(gWritten[w] + 1)]
                         /\ gFlushed' = [gFlushed EXCEPT ![w] = gWritten[w] + 1]
                    ELSE UNCHANGED <<gInode, gFlushed>>
               /\ UNCHANGED <<gPc, gReader>>
     ELSE /\ gReader[w] = "done"
          /\ gPc' = [gPc EXCEPT ![w] = "Flush"]
          /\ gIdx' = [gIdx EXCEPT ![w] = 1]
          /\ gReader' = [gReader EXCEPT ![w] = "none"]
          /\ UNCHANGED <<gWritten, gFlushed, gInode>>
  /\ UNCHANGED <<mode, otherVars, engineCfg, gMain, gNext, gTasks, gClosed, gFile, gArg,
                 gFlagsPath, gRegex, gParsed, dirVars, gLocked, gFinal, gFd, gLoops, gExit>>

\* processScanner returns: the deferred outputWriter.Flush() and
\* parsedOutputFile.Close() run, in that order.
WorkerFlush(w) ==
  /\ Running /\ gPc[w] = "Flush"
  /\ gInode' = [gInode EXCEPT ![gFd[w]] = @ \cup Unflushed(w)]
  /\ gFlushed' = [gFlushed EXCEPT ![w] = gWritten[w]]
  /\ gFd' = [gFd EXCEPT ![w] = 0]
  /\ gPc' = [gPc EXCEPT ![w] = "Rename"]
  /\ UNCHANGED <<mode, otherVars, engineCfg, gMain, gNext, gTasks, gClosed, gIdx, gFile, gArg,
                 gFlagsPath, gRegex, gParsed, dirVars, gLocked, gFinal, gWritten, gLoops, gExit, gReader>>

\* os.Rename(parsedOutputFilePath, parsedOutputFilePathUnlocked): the file under
\* the locked name gets the final name (replacing a file of that name); when no
\* file has the locked name the call fails and the error is dropped.  parseFile
\* returns and the worker takes the next path.
WorkerRename(w) ==
  /\ Running /\ gPc[w] = "Rename"
  /\ IF gLocked[gArg[w]] # 0
     THEN /\ gFinal' = [gFinal EXCEPT ![gArg[w]] = gLocked[gArg[w]]]
          /\ gLocked' = [gLocked EXCEPT ![gArg[w]] = 0]
     ELSE UNCHANGED <<gLocked, gFinal>>
  /\ gPc' = [gPc EXCEPT ![w] = "recv"]
  /\ UNCHANGED <<mode, otherVars, engineCfg, gMain, gNext, gTasks, gClosed, gIdx, gFile, gArg,
                 gFlagsPath, gRegex, gParsed, dirVars, gInode, gFd, gWritten, gFlushed, gLoops, gExit, gReader>>

NextEngine ==
  \/ EngineSend \/ EngineClose \/ EngineWait \/ EngineLoop \/ FileAppears
  \/ \E w \in Workers : WorkerRecv(w)
  \/ \E w \in Workers : WorkerExit(w)
  \/ \E w \in Workers : WorkerSetPath(w)
  \/ \E w \in Workers : WorkerParseFile(w)
  \/ \E w \in Workers : WorkerNewScanner(w)
  \/ \E w \in Workers : WorkerOpenFileScanner(w)
  \/ \E w \in Workers : WorkerRead(w)
  \/ \E w \in Workers : ReaderFinish(w)
  \/ \E w \in Workers : WorkerCreate(w)
  \/ \E w \in Workers : WorkerProcessScanner(w)
  \/ \E w \in Workers : WorkerFlush(w)
  \/ \E w \in Workers : WorkerRename(w)

SpecEngine == InitEngine /\ [][NextEngine]_vars

(***************************************************************************)
(* Properties of Read, Shutdown and the file move.                         *)
(***************************************************************************)
Range(q) == {q[i] : i \in 1..Len(q)}
InputLines == [i \in 1..nLines |-> i]
Drained == dataClosedSeen /\ errorClosedSeen
\* Neither the underlying reader failed nor did the caller close the file under the worker.
Undisturbed == ~hist.ioFault /\ ~hist.callerClosedFile
\* bufio.Scanner has stopped: EOF or an error is recorded and nothing is buffered.
ScanStopped == serr # "nil" /\ rpos = spos
\* The tokens Scan() returned, without those the worker discarded.
KeptTokens == SelectSeq([i \in 1..spos |-> i], LAMBDA i : i \notin hist.dropped)

\* C1: a consumer that receives from the data channel until it is closed has
\* received exactly the N input lines, in input order, none dropped, none twice.
C1_AllLinesReceivedInOrder ==
  (dataClosedSeen /\ Undisturbed) => received = InputLines

\* The input stream is exhausted: every line of the input has been read and
\* returned by Scan().
StreamExhausted == rpos = nLines /\ spos = nLines /\ ~rpart

\* C2: only the worker sends on the two channels (whatever the consumer holds or
\* the buffers hold is what the worker sent, in order); each channel is closed at
\* most once and exactly once when the worker is done; a close happens only after
\* the scan loop has ended and, when no read failed and the caller left the file
\* open, with the input stream exhausted; nothing is sent on a closed channel.
C2_SoleSenderClosesOnceAfterExhaustion ==
  /\ received \o dataChan = hist.dataSent
  /\ errsReceived \o errorChan = hist.errsSent
  /\ dataCloses <= 1 /\ errorCloses <= 1
  /\ pc \in {"done", "crashed"} => (dataCloses = 1 /\ errorCloses = 1)
  /\ dataCloses + errorCloses > 0 =>
        /\ pc \in {"return", "done", "crashed"}
        /\ Undisturbed => StreamExhausted
  /\ ~hist.sendOnClosed

\* C3: with a processed directory configured, the data channel is already closed
\* when the worker moves the input file (and so when a move failure is sent).
C3_DataClosedBeforeMove ==
  hist.rename # "none" => ~hist.dataOpenAtRename

\* C4: a failed read is sent on the error channel, none is lost, and the lines
\* after the failed one are still delivered on the data channel.
C4_ReadErrorSentAndStreamContinues ==
  (pc = "done" /\ Drained /\ ScannerErr(serr) # "nil" /\ ~hist.callerClosedFile) =>
     /\ ScannerErr(serr) \in Range(errsReceived)
     /\ serr = "ErrTooLong" => \A i \in (longAt + 1)..nLines : i \in Range(received)

\* C5 as stated: file scanner with a processed directory, both channels drained:
\* the file is gone from its path, is in the processed directory with the same
\* content, and no error was sent.
C5_MovedAndNoErrorSent ==
  (scanner = "file" /\ processedInputDirectory /\ Drained) =>
     (fsOrig = "none" /\ fsProc = Content /\ hist.errsSent = <<>>)

\* C5 amended: after the drain either the move succeeded (file gone from its path,
\* same content in the processed directory, no move error received), or it failed,
\* the file is unchanged at its path and the move error is the last error received;
\* any other error received comes from a failed read (a reader error, or the
\* caller having closed the file under the worker).
C5_MovedOrMoveErrorReceived ==
  (scanner = "file" /\ processedInputDirectory /\ Drained) =>
     /\ \/ /\ hist.rename = "ok"
           /\ fsOrig = "none" /\ fsProc = Content
           /\ "RenameErr" \notin Range(errsReceived)
        \/ /\ hist.rename = "failed"
           /\ fsOrig = Content /\ fsProc = "none"
           /\ errsReceived # <<>> /\ errsReceived[Len(errsReceived)] = "RenameErr"
     /\ \A i \in 1..Len(errsReceived) :
           errsReceived[i] # "RenameErr" => (hist.ioFault \/ hist.callerClosedFile)

C5_Witness ==
  /\ scanner = "file" /\ processedInputDirectory /\ Drained
  /\ hist.rename = "ok" /\ nLines = MaxLines /\ Len(received) = nLines

\* C6 as stated: the move never happens while lines are still in the data
\* channel buffer.
C6_NoBufferedLinesAtMove ==
  hist.rename # "none" => hist.bufferedAtRename = 0

\* C6 amended: the move happens only after the scan loop has ended and every token
\* the worker kept has been sent; the lines not yet received then (at most the
\* buffer size) stay in the channel and none is lost.
C6_MoveOnlyAfterAllLinesSent ==
  hist.rename # "none" =>
     /\ ScanStopped
     /\ hist.dataSent = KeptTokens
     /\ hist.bufferedAtRename <= dataCap
     /\ received \o dataChan = hist.dataSent

C6_Witness ==
  hist.rename = "ok" /\ hist.bufferedAtRename > 0 /\ Len(hist.dataSent) = MaxLines

\* C7: Shutdown leaves the file handle closed (or absent), changes nothing when
\* the handle is absent or already closed, never disturbs the worker, in every
\* lifecycle state; and once the worker has finished the handle is closed.
C7_ShutdownIdempotent ==
  /\ [](pc = "done" => file = "closed")
  /\ [][shutdownCalls' # shutdownCalls =>
          /\ file' # "open"
          /\ file # "open" => file' = file
          /\ UNCHANGED <<scanner, pc, panicking, defers, dataChan, errorChan, dataCloses,
                         errorCloses, fsOrig, fsProc>>]_vars

C7_Witness ==
  /\ pc = "done" /\ file = "closed" /\ shutdownCalls = MaxShutdownCalls
  /\ hist.lastOp = "Shutdown" /\ hist.fileBeforeShutdown = "closed"

\* C8: a Scanner opened on an io.Reader delivers every line, closes both channels
\* and its worker does not fail at end-of-stream.
C8_ReaderScannerReadCompletes ==
  scanner = "reader" => ~panicking

\* The worker waits in a send on the error channel: the buffer is full (or there
\* is none) and the value goes on only when the consumer receives from it.
ErrorSendBlocked == pc \in {"sendErr", "sendRenameErr"} /\ ~HasRoom(errorChan, errCap)
\* The worker waits in a send on the data channel.
DataSendBlocked == pc = "sendData" /\ ~HasRoom(dataChan, dataCap)
\* The consumer waits in "range dataChan": nothing is buffered, the channel is
\* open, and the worker is not sending on it.
DataRecvBlocked ==
  ChannelsMade /\ ~dataClosedSeen /\ dataChan = <<>> /\ dataCloses = 0 /\ pc # "sendData"

\* C23: with a consumer that ranges over the data channel first and over the
\* error channel afterwards, the worker is never waiting to send on the error
\* channel while the consumer waits on the open, empty data channel (a state
\* neither side can leave), whatever the buffer sizes, also when the rename fails.
C23_DataFirstConsumerTerminates ==
  consumerMode = "dataFirst" => ~(ErrorSendBlocked /\ DataRecvBlocked)

\* Tokens the worker scanned and kept that the consumer has not received yet.
LinesInFlight == Len(KeptTokens) - Len(received)
\* Errors the worker sent that the consumer has not received yet.
ErrorsInFlight == Len(hist.errsSent) - Len(errsReceived)

\* C24: the lines the worker has scanned for the consumer and the consumer has not
\* received yet are those in the data channel buffer plus the one the worker
\* holds, so at most dataBuffer + 1; when neither the reader fails nor the caller
\* closes the file no line is discarded, and the bound holds for all lines scanned;
\* the errors sent and not yet received are those buffered, at most errorBuffer.
C24_BackpressureBounds ==
  /\ LinesInFlight = Len(dataChan) + (IF pc = "sendData" THEN 1 ELSE 0)
  /\ LinesInFlight <= dataCap + 1
  /\ Undisturbed => spos - Len(received) <= dataCap + 1
  /\ ErrorsInFlight = Len(errorChan)
  /\ ErrorsInFlight <= errCap
  /\ Len(dataChan) <= dataCap

\* The data buffer is full, the worker holds one more line and has not read the
\* whole input yet, and the consumer has received nothing.
C24_Witness ==
  /\ dataCap = MaxBuffer /\ Len(dataChan) = dataCap /\ pc = "sendData"
  /\ received = <<>> /\ LinesInFlight = dataCap + 1
  /\ spos < nLines /\ nLines = MaxLines

\* C25: once the caller has called Shutdown on a started Scanner, the worker never
\* waits in a send that only a receive by the consumer can complete: a consumer
\* that has stopped receiving cannot keep it from ending and closing the channels.
C25_ShutdownReleasesWorker ==
  (shutdownCalls > 0 /\ ChannelsMade) => ~(DataSendBlocked \/ ErrorSendBlocked)

(***************************************************************************)
(* Properties of Filter and Replace.                                       *)
(***************************************************************************)
\* C9: Filter drops a line exactly when a negative filter is configured and
\* matches it, or a positive filter is configured and does not match it; so with
\* no filter nothing is dropped, and a line matching both filters is dropped.
C9_FilterDropsExactly ==
  mode = "filtered" =>
  /\ fOut = (  (fNeg # EmptyString /\ MatchString(fNeg, fRow))
            \/ (fPos # EmptyString /\ ~MatchString(fPos, fRow)))
  /\ (fNeg = EmptyString /\ fPos = EmptyString) => ~fOut
  /\ (fNeg # EmptyString /\ fPos # EmptyString
        /\ MatchString(fNeg, fRow) /\ MatchString(fPos, fRow)) => fOut

C9_Witness ==
  /\ mode = "filtered"
  /\ fNeg # EmptyString /\ fPos # EmptyString /\ fNeg # fPos
  /\ MatchString(fNeg, fRow) /\ MatchString(fPos, fRow) /\ fOut

\* The single-rule rewrites composed from the first rule to the last.
RECURSIVE Composition(_, _)
Composition(rules, r) ==
  IF rules = <<>> THEN r
  ELSE ReplaceAllString(rules[Len(rules)].RegexString,
                        Composition(SubSeq(rules, 1, Len(rules) - 1), r),
                        rules[Len(rules)].Replacement)

\* The pair of the documented example: put delimiters around a field, then
\* collapse longer runs of the delimiter character to one delimiter.
InsertDelimiter == [RegexString |-> Lit(<<"a">>), Replacement |-> <<"b", "b", "$1", "b", "b">>]
CollapseDelimiter == [RegexString |-> Rep("b", 2), Replacement |-> <<"b", "b">>]

\* The line one rule alone makes of a line.
RuleOutput(rule, r) == ReplaceAllString(rule.RegexString, r, rule.Replacement)

\* The first of two rules produces the second one's input pattern: it rewrites
\* the line, and the second rule's pattern, absent from the line, matches in its
\* output.
FeedsPattern(R1, R2, r) ==
  /\ RuleOutput(R1, r) # r
  /\ ~MatchString(R2.RegexString, r)
  /\ MatchString(R2.RegexString, RuleOutput(R1, r))

\* C10 as stated: Replace is the composition of the single-rule rewrites in
\* declaration order, and for every two rules R1, R2 where R1's output contains
\* R2's pattern the lists [R1,R2] and [R2,R1] give different results.
C10_OrdersAlwaysDiffer ==
  mode = "replaced" =>
  /\ rOut = Composition(rRules, rRow)
  /\ (Len(rRules) = 2 /\ FeedsPattern(rRules[1], rRules[2], rRow)) =>
        rOut # Replace(<<rRules[2], rRules[1]>>, rRow)

\* C10 amended: Replace is the composition of the single-rule rewrites in
\* declaration order, every rule rewriting all its matches in the previous rule's
\* output; the order matters, the documented pair giving different results in the
\* two orders; and two rules give different results in the two orders only when
\* each of them rewrites the line or the other one's output.
C10_ReplaceInDeclarationOrder ==
  mode = "replaced" =>
  /\ rOut = Composition(rRules, rRow)
  /\ Replace(<<InsertDelimiter, CollapseDelimiter>>, <<"b", "a", "b">>) = <<"b", "b", "a", "b", "b">>
  /\ Replace(<<CollapseDelimiter, InsertDelimiter>>, <<"b", "a", "b">>)
        = <<"b", "b", "b", "a", "b", "b", "b">>
  /\ (Len(rRules) = 2 /\ rOut # Replace(<<rRules[2], rRules[1]>>, rRow)) =>
        \A i, j \in 1..2 : i # j =>
           \/ RuleOutput(rRules[i], rRow) # rRow
           \/ RuleOutput(rRules[i], RuleOutput(rRules[j], rRow)) # RuleOutput(rRules[j], rRow)

\* Two rules, the first one produces the second one's pattern, and the declared
\* order gives another result than the reverse order.
C10_Witness ==
  /\ mode = "replaced"
  /\ Len(rRules) = 2
  /\ FeedsPattern(rRules[1], rRules[2], rRow)
  /\ rOut # Replace(<<rRules[2], rRules[1]>>, rRow)

\* Two rules, the first one produces the second one's pattern, and both orders
\* give the same result: the second rule puts back what it matches.
C10_SameInBothOrders ==
  /\ mode = "replaced"
  /\ Len(rRules) = 2
  /\ FeedsPattern(rRules[1], rRules[2], rRow)
  /\ rOut = Replace(<<rRules[2], rRules[1]>>, rRow)

(***************************************************************************)
(* Properties of Split.                                                    *)
(***************************************************************************)
\* C11: Split returns the fields of the line split on the delimiter regex.  For a
\* delimiter that matches text, joined with a character foreign to the line the
\* fields give the line with every delimiter match replaced by that character,
\* and there is at least one field; for the empty delimiter the fields are the
\* characters of the line, none for the empty line.  With a nonzero expected
\* count the mismatch error is returned exactly when the number of fields differs
\* from it; and the fields returned with the error are those returned for the
\* same line when the expected count matches.
C11_SplitFieldsAndMismatchError ==
  mode = "splitted" =>
  /\ (Len(sOut.fields) = 0) <=> (sDelim = EmptyString /\ sRow = <<>>)
  /\ \A k \in 1..Len(sOut.fields) : "|" \notin Range(sOut.fields[k])
  /\ sDelim # EmptyString => Join(sOut.fields, "|") = ReplaceAllString(sDelim, sRow, <<"|">>)
  /\ sDelim = EmptyString =>
        /\ Len(sOut.fields) = Len(sRow)
        /\ \A k \in 1..Len(sRow) : sOut.fields[k] = <<sRow[k]>>
  /\ sExpected # 0 => ((sOut.err = "FieldCountMismatch") <=> (Len(sOut.fields) # sExpected))
  /\ sOut.err \in {"nil", "FieldCountMismatch"}
  /\ Split(sDelim, Len(sOut.fields), sRow) = [fields |-> sOut.fields, err |-> "nil"]

\* The documented case: three fields, expected count one more, the three fields
\* come back with the error.
C11_Witness ==
  /\ mode = "splitted"
  /\ Len(sOut.fields) = 3 /\ sExpected = 4
  /\ sDelim # EmptyString
  /\ sOut.err = "FieldCountMismatch"
  /\ \E k \in 1..3 : sOut.fields[k] # <<>>

\* C12 as stated: with an expected field count of 0 Split returns no error.
C12_ZeroCountUnchecked ==
  (mode = "splitted" /\ sExpected = 0) => sOut.err = "nil"

\* C12 amended: an expected field count of 0 is compared like any other.  With
\* expectedFieldCount = 0 Split returns the fields of the line, with the mismatch
\* error exactly when there is at least one field: for every line, except the
\* empty line under the empty delimiter, which has no field and gets no error.
C12_ZeroCountComparedLikeAnyOther ==
  (mode = "splitted" /\ sExpected = 0) =>
     /\ sOut.fields = RegexpSplit(sDelim, sRow)
     /\ (sOut.err = "FieldCountMismatch") <=> (Len(sOut.fields) >= 1)
     /\ (sOut.err = "nil") <=> (sDelim = EmptyString /\ sRow = <<>>)

\* A line of one field gets the mismatch error.
C12_Witness ==
  /\ mode = "splitted" /\ sExpected = 0
  /\ Len(sOut.fields) = 1 /\ sOut.fields[1] = sRow /\ sRow # <<>>
  /\ sDelim # EmptyString
  /\ sOut.err = "FieldCountMismatch"

\* The one case without an error: the empty line under the empty delimiter.
C12_NoFieldNoError ==
  /\ mode = "splitted" /\ sExpected = 0
  /\ sDelim = EmptyString /\ sRow = <<>>
  /\ sOut = [fields |-> <<>>, err |-> "nil"]

(***************************************************************************)
(* Properties of Extract.                                                  *)
(***************************************************************************)
\* A field after the rule has put its token in place of its matches n times over.
RECURSIVE Rewritten(_, _, _)
Rewritten(rule, field, n) ==
  IF n = 0 THEN field
  ELSE ReplaceAllString(rule.RegexString, Rewritten(rule, field, n - 1), rule.Token)

\* The number of positions 1..upto of a Columns list that name the column col.
Positions(cols, col, upto) == Cardinality({e \in 1..upto : cols[e] = col})

\* The row after one rule: every field is rewritten once for every position of
\* the rule's Columns list that names it.
TokenRow(rule, r) ==
  [c \in 1..Len(r) |->
     IF rule.RegexString # EmptyString
     THEN Rewritten(rule, r[c], Positions(rule.Columns, c - 1, Len(rule.Columns)))
     ELSE r[c]]

\* The field the rule finds at position ec of its Columns list in the row r it
\* started on: rewritten once for every earlier position that names the column.
FieldFound(rule, r, ec) ==
  Rewritten(rule, r[rule.Columns[ec] + 1], Positions(rule.Columns, rule.Columns[ec], ec - 1))

\* The row the rule with index ri works on: the input row after rules 1..ri-1.
RECURSIVE RowBefore(_, _, _)
RowBefore(rules, ri, r) ==
  IF ri = 1 THEN r ELSE TokenRow(rules[ri - 1], RowBefore(rules, ri - 1, r))

\* The configured submatch of every match of the rule in one field, in match order.
MatchValues(rule, field) ==
  LET sbms == FindAllStringSubmatch(rule.RegexString, field)
      inRange == SelectSeq(sbms, LAMBDA m : rule.Submatch < Len(m))
  IN  [k \in 1..Len(inRange) |-> inRange[k][rule.Submatch + 1]]

\* The values of one rule, column after column in the order of its Columns list.
RECURSIVE RuleValues(_, _, _)
RuleValues(rule, r, ec) ==
  IF rule.RegexString = EmptyString \/ ec > Len(rule.Columns) THEN <<>>
  ELSE (IF rule.Columns[ec] >= Len(r) THEN <<>>
        ELSE MatchValues(rule, FieldFound(rule, r, ec)))
       \o RuleValues(rule, r, ec + 1)

\* The values of all rules from rule ri on, rule after rule in declaration order.
RECURSIVE ExpectedExtracts(_, _, _)
ExpectedExtracts(rules, ri, r) ==
  IF ri > Len(rules) THEN <<>>
  ELSE RuleValues(rules[ri], RowBefore(rules, ri, r), 1) \o ExpectedExtracts(rules, ri + 1, r)

\* Order of two log entries: by rule, then by position in Columns, then by match.
LogBefore(x, y) ==
  \/ x.rule < y.rule
  \/ x.rule = y.rule /\ x.ec < y.ec
  \/ x.rule = y.rule /\ x.ec = y.ec /\ x.match < y.match

\* C13: the extracted values come rule after rule in declaration order, within a
\* rule column after column in the order of its Columns list, within a column in
\* match order: every append is later in that order than the appends before it,
\* and the values are those of the rules taken in turn on the row the earlier
\* rules left.
C13_ExtractOrder ==
  mode = "extracted" =>
  /\ \A i, j \in 1..Len(eOut.log) : i < j => LogBefore(eOut.log[i], eOut.log[j])
  /\ eOut.extracts = ExpectedExtracts(eRules, 1, eRow)

\* The first rule's only match lies to the right of the second rule's match in
\* the original field, and its value still comes first.
C13_Witness ==
  /\ mode = "extracted"
  /\ Len(eRules) = 2 /\ eRow = <<<<"b", "a">>>>
  /\ eRules[1].RegexString = Lit(<<"a">>) /\ eRules[1].Submatch = 1
  /\ eRules[2].RegexString = Lit(<<"b">>) /\ eRules[2].Submatch = 1
  /\ Len(eOut.extracts) >= 2
  /\ eOut.extracts[1] = <<"a">> /\ eOut.extracts[2] = <<"b">>

\* Number of log entries of rule ri at position ec of its Columns list.
Appends(log, ri, ec) ==
  Cardinality({k \in 1..Len(log) : log[k].rule = ri /\ log[k].ec = ec})

\* C14: every match of a rule in a targeted field causes exactly one append: of
\* the configured submatch to the values, or, when the submatch index is out of
\* range for the match, of one error; so for every rule and column the appends
\* number the matches of the rule in the field it finds, whatever errors came
\* before, and values and errors together number the appends.
C14_OneAppendPerMatch ==
  mode = "extracted" =>
  /\ \A ri \in 1..Len(eRules) : \A ec \in 1..Len(eRules[ri].Columns) :
        Appends(eOut.log, ri, ec) =
          IF eRules[ri].RegexString = EmptyString \/ eRules[ri].Columns[ec] >= Len(eRow)
          THEN 0
          ELSE Len(FindAllStringSubmatch(eRules[ri].RegexString,
                     FieldFound(eRules[ri], RowBefore(eRules, ri, eRow), ec)))
  /\ \A k \in 1..Len(eOut.log) :
        /\ eOut.log[k].rule \in 1..Len(eRules)
        /\ eOut.log[k].ec \in 1..Len(eRules[eOut.log[k].rule].Columns)
        /\ (eOut.log[k].out = "error") <=>
              (eRules[eOut.log[k].rule].Submatch
                 >= Len(Submatches(eRules[eOut.log[k].rule].RegexString, <<>>)))
  /\ Len(eOut.extracts) = Cardinality({k \in 1..Len(eOut.log) : eOut.log[k].out = "value"})
  /\ Len(eOut.errors) = Cardinality({k \in 1..Len(eOut.log) : eOut.log[k].out = "error"})
  /\ Len(eOut.row) = Len(eRow)

\* A rule with an out-of-range submatch index finds two matches in one field (two
\* errors), and a later rule still extracts a value.
C14_Witness ==
  /\ mode = "extracted"
  /\ Len(eOut.errors) = 2 /\ Len(eOut.extracts) >= 1
  /\ Len(eOut.log) >= 3
  /\ eOut.log[1].out = "error" /\ eOut.log[2].out = "error"
  /\ eOut.log[1].rule = eOut.log[2].rule /\ eOut.log[1].ec = eOut.log[2].ec
  /\ eOut.log[3].out = "value" /\ eOut.log[3].rule > eOut.log[1].rule

\* The column indices the rules with a pattern point at.
TargetedColumns(rules) ==
  UNION {Range(rules[ri].Columns) : ri \in {i \in 1..Len(rules) : rules[i].RegexString # EmptyString}}

\* The row after one rule has replaced, once, all matches of its pattern by its
\* token in every field its Columns list names.
ReplacedOnce(rule, r) ==
  [c \in 1..Len(r) |->
     IF rule.RegexString # EmptyString /\ (c - 1) \in Range(rule.Columns)
     THEN ReplaceAllString(rule.RegexString, r[c], rule.Token)
     ELSE r[c]]

\* The row after the rules 1..ri-1 have done so one after the other.
RECURSIVE ReplacedRuleByRule(_, _, _)
ReplacedRuleByRule(rules, ri, r) ==
  IF ri = 1 THEN r ELSE ReplacedOnce(rules[ri - 1], ReplacedRuleByRule(rules, ri - 1, r))

\* C28 as stated: Extract keeps the number of fields, leaves every field no rule
\* points at as it was, skips a rule column beyond the row (nothing is appended
\* for it, no value and no error), and leaves in every field the result of
\* replacing, rule after rule in declaration order, all matches of the rule's
\* pattern by its token.
C28_EachRuleReplacesOnce ==
  mode = "extracted" =>
  /\ Len(eOut.row) = Len(eRow)
  /\ \A c \in 1..Len(eRow) : (c - 1) \notin TargetedColumns(eRules) => eOut.row[c] = eRow[c]
  /\ \A ri \in 1..Len(eRules) : \A ec \in 1..Len(eRules[ri].Columns) :
        eRules[ri].Columns[ec] >= Len(eRow) => Appends(eOut.log, ri, ec) = 0
  /\ Len(eOut.errors) = Cardinality({k \in 1..Len(eOut.log) : eOut.log[k].out = "error"})
  /\ eOut.row = ReplacedRuleByRule(eRules, Len(eRules) + 1, eRow)

\* C28 amended: as stated, except that a rule replaces its matches in a field
\* once for every position of its Columns list that names the field, each time
\* in the field as the time before left it: a rule that names a field once
\* replaces once, a rule that names it twice replaces its matches and then the
\* matches in the result.
C28_ExtractFrame ==
  mode = "extracted" =>
  /\ Len(eOut.row) = Len(eRow)
  /\ \A c \in 1..Len(eRow) : (c - 1) \notin TargetedColumns(eRules) => eOut.row[c] = eRow[c]
  /\ \A ri \in 1..Len(eRules) : \A ec \in 1..Len(eRules[ri].Columns) :
        eRules[ri].Columns[ec] >= Len(eRow) => Appends(eOut.log, ri, ec) = 0
  /\ Len(eOut.errors) = Cardinality({k \in 1..Len(eOut.log) : eOut.log[k].out = "error"})
  /\ eOut.row = RowBefore(eRules, Len(eRules) + 1, eRow)
  /\ (\A ri \in 1..Len(eRules) : \A c \in 1..Len(eRow) :
         Positions(eRules[ri].Columns, c - 1, Len(eRules[ri].Columns)) <= 1)
       => eOut.row = ReplacedRuleByRule(eRules, Len(eRules) + 1, eRow)

\* Two rules rewrite field 0 one after the other, the first also names a column
\* beyond the row, the second names field 0 twice and its token holds its pattern,
\* so the field is not what one replacement a rule gives; field 1 is in no rule
\* and keeps its text, and no error is returned.
C28_Witness ==
  /\ mode = "extracted"
  /\ Len(eRow) = 2 /\ Len(eRules) = 2
  /\ \E ec \in 1..Len(eRules[1].Columns) : eRules[1].Columns[ec] >= Len(eRow)
  /\ eRules[2].Columns = <<0, 0>>
  /\ TargetedColumns(eRules) \cap {0, 1} = {0}
  /\ eOut.row[1] # eRow[1] /\ eOut.row[2] = eRow[2] /\ eRow[2] # <<>>
  /\ TokenRow(eRules[1], eRow)[1] # eRow[1]
  /\ eOut.row[1] # TokenRow(eRules[1], eRow)[1]
  /\ eOut.row # ReplacedRuleByRule(eRules, Len(eRules) + 1, eRow)
  /\ eOut.errors = <<>>

(***************************************************************************)
(* Properties of SplitsExcludeHashColumns.                                 *)
(***************************************************************************)
\* The last call returned (it did not panic on a column beyond the row).
HashReturned == hLog # <<>> /\ ~hOut.panic
\* The lowest configured hash column.
LowestHashColumn == CHOOSE c \in Range(HashColumns) : \A d \in Range(HashColumns) : c <= d
\* The fields of the row outside the hash columns, in their order.
NonHashFields(splits) ==
  LET keep == SelectSeq([i \in 1..Len(splits) |-> i], LAMBDA i : (i - 1) \notin Range(HashColumns))
  IN  [k \in 1..Len(keep) |-> splits[keep[k]]]

\* C15: whatever the order in which the configuration lists the hash columns, the
\* returned row has len(fields) - len(hashColumns) + 1 elements, holds the hash
\* token exactly once, at the index of the lowest hash column, and holds the other
\* fields in their original order.
C15_HashSubstitutionShape ==
  HashReturned =>
  /\ Len(hOut.splits) = Len(hSplits) - Len(HashColumns) + 1
  /\ Cardinality({k \in 1..Len(hOut.splits) : hOut.splits[k] = hOut.hash}) = 1
  /\ LowestHashColumn + 1 <= Len(hOut.splits)
  /\ hOut.splits[LowestHashColumn + 1] = hOut.hash
  /\ SelectSeq(hOut.splits, LAMBDA f : f # hOut.hash) = NonHashFields(hSplits)

\* Two logged calls agree on the values of every hash column and on the format.
SameHashValues(x, y) ==
  /\ x.format = y.format
  /\ \A k \in 1..Len(HashColumns) :
        x.splits[HashColumns[k] + 1] = y.splits[HashColumns[k] + 1]
\* Number of calls among the first n that returned hash h.
Produced(h, n) == Cardinality({k \in 1..n : hLog[k].hash = h})

\* C16: two rows with the same values in the hash columns (hashed in the same
\* format) get the same hash token; and when they are the last two rows hashed,
\* the count of that hash has grown by exactly 2 over the calls before them, and
\* HashMap holds under it the delimiter-joined hash-column values of the first.
C16_SameValuesSameHash ==
  mode = "hash" =>
  /\ \A i, j \in 1..Len(hLog) :
        SameHashValues(hLog[i], hLog[j]) => hLog[i].hash = hLog[j].hash
  /\ (Len(hLog) >= 2 /\ SameHashValues(hLog[Len(hLog) - 1], hLog[Len(hLog)])) =>
        /\ hLog[Len(hLog)].hash \in DOMAIN HashCounts \cap DOMAIN HashMap
        /\ HashCounts[hLog[Len(hLog)].hash] = Produced(hLog[Len(hLog)].hash, Len(hLog) - 2) + 2
        /\ HashMap[hLog[Len(hLog)].hash]
              = Join([k \in 1..Len(HashColumns) |-> hLog[Len(hLog) - 1].splits[HashColumns[k] + 1]],
                     OutputDelimiter)

\* Two different rows with the same hash-column values have been hashed.
C16_Witness ==
  /\ mode = "hash" /\ Len(hLog) = 2
  /\ hLog[1].splits # hLog[2].splits
  /\ SameHashValues(hLog[1], hLog[2])
  /\ hLog[1].format = HASH_FORMAT_STRING
  /\ HashCounts[hLog[2].hash] = 2

\* Sum of the counts of a map.
RECURSIVE SumCounts(_, _)
SumCounts(map, keys) ==
  IF keys = {} THEN 0
  ELSE LET k == CHOOSE x \in keys : TRUE IN map[k] + SumCounts(map, keys \ {k})

\* C17: HashMap and HashCounts have the same keys; the count of a hash is the
\* number of calls that returned it and the counts add up to the number of calls
\* that returned; no call removes a key or lowers a count.
C17_MapsAddOnlyCountsExact ==
  /\ [](/\ DOMAIN HashMap = DOMAIN HashCounts
        /\ \A h \in DOMAIN HashCounts : HashCounts[h] = Produced(h, Len(hLog)) /\ HashCounts[h] >= 1
        /\ \A k \in 1..Len(hLog) : hLog[k].hash \in DOMAIN HashCounts
        /\ SumCounts(HashCounts, DOMAIN HashCounts) = Len(hLog))
  /\ [][/\ DOMAIN HashMap \subseteq DOMAIN HashMap'
        /\ \A h \in DOMAIN HashCounts : h \in DOMAIN HashCounts' /\ HashCounts'[h] >= HashCounts[h]]_vars

\* C18: once HashMap holds a value under a hash, no later call changes it.
C18_FirstSeenWins ==
  [][\A h \in DOMAIN HashMap : h \in DOMAIN HashMap' /\ HashMap'[h] = HashMap[h]]_vars

\* The hash columns in ascending order.
Ascending(columns) == SortSeq(columns, LAMBDA a, b : a < b)

\* C27: the result does not depend on the order in which the configuration lists
\* the hash columns: the value stored in HashMap, the hash token and the reduced
\* row are those obtained with the same columns listed in ascending order.
C27_HashColumnOrderIrrelevant ==
  HashReturned =>
    LET hashString == Join(HashSplits(Ascending(HashColumns), hSplits), OutputDelimiter)
    IN  /\ hOut.hash \in DOMAIN HashMap
        /\ HashMap[hOut.hash] = hashString
        /\ hOut.hash = Hash(hashString, hFormat)
        /\ hOut.splits = ExcludeFrom(hSplits, 1, Ascending(HashColumns), FALSE, hOut.hash)

(***************************************************************************)
(* Properties of NewScanner.                                               *)
(***************************************************************************)
\* Some pattern of the configuration does not compile, or the configured
\* processed directory does not exist.
InvalidInputs(inputs) ==
  \/ ~Compiles(inputs.InputDelimiter)
  \/ inputs.NegativeFilter = Invalid
  \/ inputs.PositiveFilter = Invalid
  \/ \E i \in 1..Len(inputs.Replacements) : inputs.Replacements[i].RegexString = Invalid
  \/ \E i \in 1..Len(inputs.Extracts) : inputs.Extracts[i].RegexString = Invalid
  \/ inputs.ProcessedInputDirectory = "missing"

\* C19: NewScanner returns an error and no Scanner exactly when a pattern fails to
\* compile or a configured processed directory does not exist; otherwise it
\* returns a Scanner, fully built from the inputs, and no error.
C19_NewScannerValidatesEagerly ==
  mode = "constructed" =>
  /\ (nOut.err # "nil") <=> InvalidInputs(nInputs)
  /\ (nOut.err # "nil") <=> (nOut.scnr = Nil)
  /\ nOut.err = "nil" =>
        /\ nOut.scnr.inputDelimiter = nInputs.InputDelimiter
        /\ nOut.scnr.replace = nInputs.Replacements
        /\ nOut.scnr.extract = nInputs.Extracts
        /\ nOut.scnr.processedInputDirectory = nInputs.ProcessedInputDirectory
        /\ (nOut.scnr.negativeFilter = Nil) <=> (nInputs.NegativeFilter = EmptyString)
        /\ (nOut.scnr.positiveFilter = Nil) <=> (nInputs.PositiveFilter = EmptyString)

\* Only the last extract pattern is invalid: every earlier check has passed, and
\* still no Scanner is returned.
C19_Witness ==
  /\ mode = "constructed"
  /\ Compiles(nInputs.InputDelimiter)
  /\ nInputs.NegativeFilter # Invalid /\ nInputs.PositiveFilter # Invalid
  /\ Len(nInputs.Replacements) = MaxRules /\ FirstInvalid(nInputs.Replacements, 1) = 0
  /\ Len(nInputs.Extracts) = MaxExtracts
  /\ FirstInvalid(nInputs.Extracts, 1) = MaxExtracts
  /\ nInputs.ProcessedInputDirectory = "exists"
  /\ nOut.scnr = Nil /\ nOut.err = "CompileError"

(***************************************************************************)
(* Properties of parseFileEngine.                                          *)
(***************************************************************************)
\* The memory access the worker's next step makes.
Access(w) ==
  IF gPc[w] = "NewScanner" /\ gIdx[w] \in RuleObjects
  THEN [kind |-> "regex", index |-> gIdx[w], write |-> TRUE]
  ELSE IF gPc[w] = "processScanner" /\ gWritten[w] < gRows /\ gIdx[w] \in RuleObjects
  THEN [kind |-> "regex", index |-> gIdx[w], write |-> FALSE]
  ELSE IF gPc[w] = "setPath" THEN [kind |-> "flags", index |-> 0, write |-> TRUE]
  ELSE IF gPc[w] = "parseFile" THEN [kind |-> "flags", index |-> 0, write |-> FALSE]
  ELSE [kind |-> "none", index |-> 0, write |-> FALSE]

\* C20: no memory location is about to be written by one Scanner's construction
\* while another worker is about to read or write the same location (the workers
\* are not synchronised with each other, so two such steps are concurrent).
C20_NoCrossScannerSharing ==
  mode = "engine" =>
    \A w1, w2 \in Workers :
      (w1 # w2 /\ Access(w1).kind = "regex" /\ Access(w1).write) =>
         ~(Access(w2).kind = "regex" /\ Access(w2).index = Access(w1).index)

\* C21: an output file has its final name only when every row of its input file
\* has been written and flushed to it and no writer still has it open; a file
\* still being written has the locked name only.
C21_FinalNameOnlyWhenComplete ==
  mode = "engine" =>
    \A f \in 1..gFiles : gFinal[f] # 0 =>
      /\ gInode[gFinal[f]] = 1..gRows
      /\ \A w \in Workers : gFd[w] # gFinal[f]

\* C22: in watch mode the application does not end; every pass of the engine that
\* has returned has processed (and moved) every file that was in the data
\* directory when the pass began, files added after startup included; and
\* parseFile is not called again for a file already processed and moved.
C22_WatchProcessesEveryFileOnce ==
  (mode = "engine" /\ gWatch) =>
    /\ gExit = 0
    /\ gMain = "done" => gDirAtStart \subseteq gMoved
    /\ \A w \in Workers : gPc[w] = "OpenFileScanner" => gArg[w] \notin gMoved

\* C26: in one call of parseFileEngine no path is handed to parseFile twice; when
\* the call returns, parseFile has been called for every path of the list and
\* every worker has finished.
C26_EachFileParsedOnce ==
  mode = "engine" =>
    /\ \A i, j \in 1..Len(gParsed) : i # j => gParsed[i] # gParsed[j]
    /\ gMain = "done" =>
          /\ Range(gParsed) = 1..gFiles
          /\ \A w \in Workers : gPc[w] = "exited"

(***************************************************************************)
(* Properties of the date-time replacement.                                *)
(***************************************************************************)
\* The text names a date and a time of day that exist.
Denotes(dt) ==
  /\ dt.month \in 1..12 /\ dt.day \in 1..DaysIn(dt.month, dt.year)
  /\ dt.hour \in 0..23 /\ dt.minute \in 0..59 /\ dt.second \in 0..59
\* The epoch seconds of the date-time a text denotes, in decimal.
OwnEpoch(dt) ==
  Sprint([days |-> DaysFromCivil(dt.year, dt.month, dt.day),
          secs |-> dt.hour * 3600 + dt.minute * 60 + dt.second])

\* C29: a rule whose RegexString is DATE_TIME_REGEX replaces every match that
\* denotes a date-time, its separator a space or a hyphen, by the decimal Unix
\* epoch seconds of that date-time, whatever the rule's Replacement template, and
\* leaves the rest of the line as it is.
C29_DateTimeReplacedByOwnEpoch ==
  mode = "dated" =>
    /\ Len(rOut) = Len(rRow)
    /\ \A i \in 1..Len(rRow) :
          IF rRow[i] \in DateTimeTexts
          THEN Denotes(DateTimeOf(rRow[i])) => rOut[i] = OwnEpoch(DateTimeOf(rRow[i]))
          ELSE rOut[i] = rRow[i]

(***************************************************************************)
(* Properties of the processScanner loop.                                  *)
(***************************************************************************)
\* The indices, in order, of the lines among the first n that Filter keeps.
RECURSIVE KeptLines(_)
KeptLines(n) ==
  IF n = 0 THEN <<>>
  ELSE IF PassesFilter(pCfg, pLines[n]) THEN Append(KeptLines(n - 1), n) ELSE KeptLines(n - 1)

\* The rows written are those of the kept lines received, one each, in order; with
\* hashing enabled the counts add up to the number of rows written.
RowsMatchKeptLines ==
  /\ Len(pOut) = Len(KeptLines(pDone))
  /\ \A k \in 1..Len(pOut) : pOut[k].line = KeptLines(pDone)[k]
  /\ HashingEnabled => SumCounts(HashCounts, DOMAIN HashCounts) = Len(pOut)
\* A line that Filter drops changes neither the output nor the maps.
DroppedLineChangesNothing ==
  (pDone' = pDone + 1 /\ ~PassesFilter(pCfg, pLines[pDone + 1]))
     => UNCHANGED <<pOut, HashMap, HashCounts>>

\* C30: every line received from the data channel is either dropped by Filter,
\* evaluated on the line as received, or gives exactly one output row, in input
\* order; a dropped line changes neither the output nor HashMap and HashCounts,
\* and with hashing enabled the counts add up to the number of rows written.
C30_OneRowPerKeptLine ==
  /\ [](mode = "pipe" => RowsMatchKeptLines)
  /\ [][mode = "pipe" => DroppedLineChangesNothing]_vars

====
